---- MODULE Spec2Model ----
(***************************************************************************)
(* Constituency-name reconciliation of tntracker.                          *)
(*                                                                         *)
(* Names are Python str values, modelled as TLA+ strings; a character is   *)
(* a string of length 1.  An Optional[str] argument is <<>> for None and   *)
(* <<s>> for the string s.                                                 *)
(*                                                                         *)
(* The specifications share the variables:                                 *)
(*   SpecNorm   the normalisers as pure functions of a bounded input       *)
(*   SpecMatch  _match_constituency_key as a pure function                 *)
(*   Spec       a map_data / constituency_detail request: load the rows,   *)
(*              build the indices row by row, add the hand-curated         *)
(*              aliases, resolve features                                  *)
(*   SpecLoad      the memoised loaders of views and the CSV file          *)
(*   SpecDownload  one call of ingestion.download.download_file            *)
(*   SpecSync      one run of the command sync_election_data               *)
(*   SpecLang      set_language requests on one session                    *)
(*   SpecSearch    one map_search request                                  *)
(*   SpecImport    two runs of the command import_dim_constituencies       *)
(*   SpecReconcile every place that reconciles names: the two views, the   *)
(*                 import command and build_dim_constituencies.main, each  *)
(*                 in a process of its own                                 *)
(***************************************************************************)
EXTENDS Integers, Sequences, FiniteSets, TLC

VARIABLES
    nName,      \* SpecNorm: the raw name handed to a normaliser
    nCall,      \* SpecNorm: the first call made, [fn, key], or NoCall
    nNext,      \* SpecNorm: the second call made, [kind, key], or NoNext
    mKey,       \* SpecMatch: the key handed to _match_constituency_key
    mPool,      \* SpecMatch: the candidates
    mCutoff,    \* SpecMatch: the cutoff, in hundredths
    mOut,       \* SpecMatch: what the last call returned, or NoMatch
    smla_cache,          \* the lru_cache of _load_smla_rows: [loaded, rows]
    pc,                  \* where the request is: idle, rows, resolve, respond
    view,                \* the view serving the request
    idx,                 \* rows of the index-building loop already processed
    constituency_seen,   \* set[str]: every constituency key of the rows
    district_candidates, \* dict: district key -> set of constituency keys
    alias_by_district,   \* dict: district key ("" is global) -> dict key -> key
    last,                \* the last resolution: arguments, return value, step
    csv_file,            \* SpecLoad: fct_candidates_21.csv: Missing, or its rows
    official_cache,      \* SpecLoad: the lru_cache of _load_official_constituencies
    smla_ret,            \* SpecLoad: what _load_smla_rows last returned
    official_ret,        \* SpecLoad: what _load_official_constituencies last returned
    file_at_call,        \* SpecLoad: what the file held at the last call of a loader
    download,            \* SpecDownload: the frame of download_file
    sync,                \* SpecSync: the frame of sync_election_data's handle
    session,             \* SpecLang: request.session, a dict
    language_requests,   \* SpecLang: the language arguments of the requests so far
    search,              \* SpecSearch: the frame of map_search
    db,                  \* the Constituency table: the names, in order of creation
    importer,            \* the frame of import_dim_constituencies' handle
    build                \* the frame of build_dim_constituencies.main

normVars == <<nName, nCall, nNext>>
matchVars == <<mKey, mPool, mCutoff, mOut>>
indexVars == <<constituency_seen, district_candidates, alias_by_district>>
viewVars == <<smla_cache, pc, view, idx, constituency_seen, district_candidates,
              alias_by_district, last>>
loadVars == <<csv_file, official_cache, smla_ret, official_ret, file_at_call>>
langVars == <<session, language_requests>>
importVars == <<db, importer>>
\* the variables that SpecNorm, SpecMatch and Spec leave untouched
auxVars == <<loadVars, download, sync, langVars, search, importVars, build>>
vars == <<nName, nCall, nNext, mKey, mPool, mCutoff, mOut, smla_cache, pc, view, idx,
          constituency_seen, district_candidates, alias_by_district, last,
          csv_file, official_cache, smla_ret, official_ret, file_at_call,
          download, sync, session, language_requests, search, db, importer, build>>

(***************************************************************************)
(* Bounds of the model.                                                    *)
(***************************************************************************)
MaxRawLen == 4
MaxPool == 2
MaxRows == 2
MaxRetries == 3
MaxRequests == 3
MaxRecords == 16

(***************************************************************************)
(* Characters and strings.                                                 *)
(***************************************************************************)
None == <<>>
Some(s) == <<s>>

\* s[i-1:j] of Python: the characters i..j of s that exist
Slice(s, i, j) ==
    LET hi == IF j > Len(s) THEN Len(s) ELSE j
    IN  IF i < 1 \/ i > hi THEN "" ELSE SubSeq(s, i, hi)
Ch(s, i) == Slice(s, i, i)
Prefix(s, n) == Slice(s, 1, n)
Suffix(s, i) == Slice(s, i, Len(s))

UpperLetters == "ABCDEFGHIJKLMNOPQRSTUVWXYZ"
LowerLetters == "abcdefghijklmnopqrstuvwxyz"
Digits == "0123456789"

CharsOf(s) == {Ch(s, i) : i \in 1..Len(s)}
IndexIn(s, c) == CHOOSE i \in 1..Len(s) : Ch(s, i) = c

\* re's \s and str.strip() whitespace (the ASCII part)
Whitespace == {" ", "\t", "\n", "\r", "\f"}
IsSpace(c) == c \in Whitespace
\* the class [A-Z0-9]
UpperAlnum == CharsOf(UpperLetters) \cup CharsOf(Digits)
IsUpperAlnum(c) == c \in UpperAlnum
IsNotUpperAlnum(c) == ~IsUpperAlnum(c)

\* str.upper(), one character
ToUpper == [c \in CharsOf(LowerLetters) |-> Ch(UpperLetters, IndexIn(LowerLetters, c))]
UpperCh(c) == IF c \in DOMAIN ToUpper THEN ToUpper[c] ELSE c

RECURSIVE Upper(_)
Upper(s) == IF s = "" THEN "" ELSE UpperCh(Ch(s, 1)) \o Upper(Suffix(s, 2))

RECURSIVE LStrip(_)
LStrip(s) == IF s # "" /\ IsSpace(Ch(s, 1)) THEN LStrip(Suffix(s, 2)) ELSE s

RECURSIVE RStrip(_)
RStrip(s) ==
    IF s # "" /\ IsSpace(Ch(s, Len(s))) THEN RStrip(Prefix(s, Len(s) - 1)) ELSE s

\* str.strip()
Strip(s) == LStrip(RStrip(s))

\* the length of the run of characters of class P that starts at s[i]
RECURSIVE RunLen(_, _, _)
RunLen(P(_), s, i) ==
    IF i <= Len(s) /\ P(Ch(s, i)) THEN 1 + RunLen(P, s, i + 1) ELSE 0

\* re.sub(r"[P]+", repl, s): every maximal run of class P becomes repl
RECURSIVE SubRuns(_, _, _)
SubRuns(P(_), repl, s) ==
    IF s = "" THEN ""
    ELSE LET n == RunLen(P, s, 1)
         IN  IF n > 0 THEN repl \o SubRuns(P, repl, Suffix(s, n + 1))
             ELSE Ch(s, 1) \o SubRuns(P, repl, Suffix(s, 2))

\* re.sub(r"[P]", "", s): every character of class P is removed
RECURSIVE DropChars(_, _)
DropChars(P(_), s) ==
    IF s = "" THEN ""
    ELSE (IF P(Ch(s, 1)) THEN "" ELSE Ch(s, 1)) \o DropChars(P, Suffix(s, 2))

(***************************************************************************)
(* views._normalize_constituency_name: the space-retaining normaliser.     *)
(***************************************************************************)
OrEmpty(name) == IF name = None THEN "" ELSE name[1]

\* a variant that forgets the final strip()
NormalizeNoFinalStrip(name) ==
    LET normalized == SubRuns(IsNotUpperAlnum, " ", Upper(Strip(OrEmpty(name))))
    IN  SubRuns(IsSpace, " ", normalized)

\* a variant that drops what follows the first colon before normalising
RECURSIVE BeforeColon(_)
BeforeColon(s) ==
    IF s = "" \/ Ch(s, 1) = ":" THEN ""
    ELSE Ch(s, 1) \o BeforeColon(Suffix(s, 2))

NormalizeBeforeColon(name) ==
    Strip(SubRuns(IsSpace, " ",
                  SubRuns(IsNotUpperAlnum, " ", Upper(Strip(BeforeColon(OrEmpty(name)))))))

_normalize_constituency_name(name) ==
    LET normalized == SubRuns(IsNotUpperAlnum, " ", Upper(Strip(OrEmpty(name))))
    IN  Strip(SubRuns(IsSpace, " ", normalized))

(***************************************************************************)
(* build_dim_constituencies._normalize and the identical                   *)
(* import_dim_constituencies._normalize: the space-stripping normaliser.   *)
(***************************************************************************)
IsMarkerAt(s, i) == Slice(s, i, i + 1) \in {"SC", "ST"}

\* \(\s*(?:SC|ST)\s*\) matched at s[i]: the index after the match, or 0
ParenMarkerEnd(s, i) ==
    IF Ch(s, i) # "(" THEN 0
    ELSE LET j == i + 1 + RunLen(IsSpace, s, i + 1)
         IN  IF ~IsMarkerAt(s, j) THEN 0
             ELSE LET k == j + 2 + RunLen(IsSpace, s, j + 2)
                  IN  IF Ch(s, k) = ")" THEN k + 1 ELSE 0

\* re.sub(r"\(\s*(?:SC|ST)\s*\)", "", s)
RECURSIVE DropParenMarkers(_)
DropParenMarkers(s) ==
    IF s = "" THEN ""
    ELSE LET e == ParenMarkerEnd(s, 1)
         IN  IF e > 0 THEN DropParenMarkers(Suffix(s, e))
             ELSE Ch(s, 1) \o DropParenMarkers(Suffix(s, 2))

\* \s+(?:SC|ST)\s*$ matches the whole of Suffix(s, i)
IsTrailingMarkerAt(s, i) ==
    LET n == RunLen(IsSpace, s, i)
        j == i + n
    IN  /\ n > 0
        /\ IsMarkerAt(s, j)
        /\ j + 2 + RunLen(IsSpace, s, j + 2) = Len(s) + 1

\* re.sub(r"\s+(?:SC|ST)\s*$", "", s): the leftmost match is removed
DropTrailingMarker(s) ==
    LET starts == {i \in 1..Len(s) : IsTrailingMarkerAt(s, i)}
    IN  IF starts = {} THEN s
        ELSE Prefix(s, (CHOOSE i \in starts : \A k \in starts : i <= k) - 1)

\* a variant that forgets the trailing-word marker
DimNormalizeKeepTrailing(name) ==
    DropChars(IsNotUpperAlnum, Strip(DropParenMarkers(Upper(name))))

_normalize(name) ==
    LET upper == DropTrailingMarker(Strip(DropParenMarkers(Upper(name))))
    IN  DropChars(IsNotUpperAlnum, upper)

(***************************************************************************)
(* The names and keys considered.  The normaliser and the similarity ratio *)
(* are evaluated once for each of them.                                    *)
(***************************************************************************)
\* a csv.DictReader row: 2021_constituency, 2021_district, const_off
Row(con, dist, off) == [con |-> con, dist |-> dist, off |-> off]

\* the rows fct_candidates_21.csv may hold
CsvRows ==
    { Row(Some("Tirupattur"), Some("Tirupathur"), Some("Tiruppattur")),
      Row(Some("Tiruppathur"), Some("Sivaganga"), Some("Tiruppattur")),
      Row(Some("Tirupathur"), Some("Tirupathur"), Some("")),
      Row(Some("Vandavasi (SC)"), Some("Tiruvannamalai"), Some("Vandavasi")),
      Row(Some("Vandavasi"), Some("Tiruvannamalai"), Some("Vandavasi")),
      Row(Some("Vandavasi"), Some(""), Some("Vandavasi (SC)")),
      Row(Some("Harur"), Some("Dharmapuri"), Some("")),
      Row(Some("Arani"), Some("Tiruvannamalai"), Some("")),
      Row(None, None, None) }

\* what _load_smla_rows reads: a missing file gives the empty list
CsvContents == UNION {[1..n -> CsvRows] : n \in 0..MaxRows}

\* Constituency.name and Constituency.district of the records resolved
FeatureNames ==
    {None, Some(""), Some("Tirupatur"), Some("Tirupathur"), Some("Tiruppattur"),
     Some("Vandavasi"), Some("Harur"), Some("Arni")}
FeatureDistricts == {Some(""), Some("Tirupathur"), Some("Sivaganga"), Some("Dharmapuri")}

\* the keys handed to _match_constituency_key in SpecMatch
MatchKeys ==
    {"", "ARNI", "ARANI", "ARINI", "ARANI SC", "ARNI SC", "ARNI ST", "ARNI SC ST", "HARUR"}

KnownNames ==
    FeatureNames \cup FeatureDistricts
        \cup {r.con : r \in CsvRows} \cup {r.dist : r \in CsvRows}
        \cup {r.off : r \in CsvRows}
NormalizedNames == [name \in KnownNames |-> _normalize_constituency_name(name)]

\* _normalize_constituency_name(name)
KeyOf(name) ==
    IF name \in KnownNames THEN NormalizedNames[name]
    ELSE _normalize_constituency_name(name)

(***************************************************************************)
(* difflib, as views._match_constituency_key uses it.                      *)
(* A similarity ratio is the exact fraction <<numerator, denominator>>;    *)
(* a cutoff is given in hundredths (0.85 is 85).                           *)
(***************************************************************************)
\* the characters of the keys in code point order, for str comparison
CodeOrder == " ()-0123456789:ABCDEFGHIJKLMNOPQRSTUVWXYZabcdefghijklmnopqrstuvwxyz"
OrdOf == [c \in CharsOf(CodeOrder) |-> IndexIn(CodeOrder, c)]

\* a < b for two str
RECURSIVE StrLess(_, _)
StrLess(a, b) ==
    IF b = "" THEN FALSE
    ELSE IF a = "" THEN TRUE
    ELSE IF Ch(a, 1) = Ch(b, 1) THEN StrLess(Suffix(a, 2), Suffix(b, 2))
    ELSE OrdOf[Ch(a, 1)] < OrdOf[Ch(b, 1)]

\* the length of the common run of a from i and b from j
RECURSIVE MatchLen(_, _, _, _)
MatchLen(a, b, i, j) ==
    IF i <= Len(a) /\ j <= Len(b) /\ Ch(a, i) = Ch(b, j)
    THEN 1 + MatchLen(a, b, i + 1, j + 1)
    ELSE 0

\* SequenceMatcher.find_longest_match: the longest block, the earliest in a,
\* then the earliest in b (no junk: the strings are shorter than 200)
FindLongestMatch(a, b) ==
    LET blocks == {<<i, j, MatchLen(a, b, i, j)>> : i \in 1..Len(a), j \in 1..Len(b)}
        Before(x, y) ==
            \/ x[3] > y[3]
            \/ x[3] = y[3] /\ x[1] < y[1]
            \/ x[3] = y[3] /\ x[1] = y[1] /\ x[2] <= y[2]
    IN  CHOOSE x \in blocks : \A y \in blocks : Before(x, y)

\* the sum of the sizes of SequenceMatcher.get_matching_blocks()
RECURSIVE MatchingChars(_, _)
MatchingChars(a, b) ==
    IF a = "" \/ b = "" THEN 0
    ELSE LET m == FindLongestMatch(a, b)
         IN  IF m[3] = 0 THEN 0
             ELSE m[3]
                  + MatchingChars(Prefix(a, m[1] - 1), Prefix(b, m[2] - 1))
                  + MatchingChars(Suffix(a, m[1] + m[3]), Suffix(b, m[2] + m[3]))

\* a variant that scores 1.0 as soon as one of the two is empty
RatioEmptyIsOne(a, b) ==
    IF Len(a) = 0 \/ Len(b) = 0 THEN <<1, 1>>
    ELSE <<2 * MatchingChars(a, b), Len(a) + Len(b)>>

\* SequenceMatcher(None, a, b).ratio() = 2.0 * matches / (len(a) + len(b)),
\* and 1.0 when both are empty
Ratio(a, b) ==
    IF Len(a) + Len(b) = 0 THEN <<1, 1>>
    ELSE <<2 * MatchingChars(a, b), Len(a) + Len(b)>>

KnownKeys == MatchKeys \cup {NormalizedNames[name] : name \in KnownNames}
KnownRatios == [a \in KnownKeys, b \in KnownKeys |-> Ratio(a, b)]

\* SequenceMatcher(None, a, b).ratio()
RatioOf(a, b) ==
    IF a \in KnownKeys /\ b \in KnownKeys THEN KnownRatios[a, b] ELSE Ratio(a, b)

RatioLess(r, q) == r[1] * q[2] < q[1] * r[2]
RatioAtLeast(r, cutoff) == 100 * r[1] >= cutoff * r[2]

\* a variant that compares the scores only
ScoredLessByScore(p, q) == RatioLess(p[1], q[1])

\* a variant that prefers the smaller str among equal scores
ScoredLessSmallerKey(p, q) ==
    \/ RatioLess(p[1], q[1])
    \/ p[1][1] * q[1][2] = q[1][1] * p[1][2] /\ StrLess(q[2], p[2])

\* (score, x) < (score', x') for two tuples of a ratio and a str
ScoredLess(p, q) ==
    \/ RatioLess(p[1], q[1])
    \/ p[1][1] * q[1][2] = q[1][1] * p[1][2] /\ StrLess(p[2], q[2])

\* a variant that takes the first element
MaxScoredFirst(best, rest) == best

\* max(result): the first of the greatest elements
RECURSIVE MaxScored(_, _)
MaxScored(best, rest) ==
    IF rest = <<>> THEN best
    ELSE MaxScored(IF ScoredLess(best, Head(rest)) THEN Head(rest) ELSE best, Tail(rest))

\* the (ratio, x) list that get_close_matches collects, x in iteration order;
\* real_quick_ratio and quick_ratio are upper bounds of ratio, so the three
\* tests together are ratio() >= cutoff
\* "if ... s.ratio() >= cutoff: result.append((s.ratio(), x))"
ScoredIf(r, x, cutoff) == IF RatioAtLeast(r, cutoff) THEN <<(<<r, x>>)>> ELSE <<>>

RECURSIVE ScoredMatches(_, _, _)
ScoredMatches(word, order, cutoff) ==
    IF order = <<>> THEN <<>>
    ELSE ScoredIf(RatioOf(Head(order), word), Head(order), cutoff)
             \o ScoredMatches(word, Tail(order), cutoff)

\* difflib.get_close_matches(word, possibilities, n=1, cutoff): heapq.nlargest
\* of one element is max(); order is the iteration order of possibilities
BestOf(result) ==
    IF result = <<>> THEN <<>>
    ELSE <<MaxScored(Head(result), Tail(result))[2]>>

get_close_matches(word, order, cutoff) == BestOf(ScoredMatches(word, order, cutoff))

(***************************************************************************)
(* views._match_constituency_key.  The operators return the key together   *)
(* with the step that produced it (exact, toggle, fuzzy, none); the code   *)
(* returns the key alone.                                                  *)
(***************************************************************************)
EndsWith(s, suffix) ==
    Len(s) >= Len(suffix) /\ Suffix(s, Len(s) - Len(suffix) + 1) = suffix

ToggleSuffixes == <<" SC", " ST">>

\* the variant tested for one suffix of the loop
ToggleVariant(key, suffix) ==
    IF EndsWith(key, suffix)
    THEN Strip(Prefix(key, Len(key) - Len(suffix)))
    ELSE key \o suffix

\* the variants tested, in the order of the loop
ToggleTests(key) ==
    [i \in 1..Len(ToggleSuffixes) |-> ToggleVariant(key, ToggleSuffixes[i])]

Matched(ret, step) == [ret |-> ret, step |-> step]

\* a variant that returns an empty str when there is no match
FirstOrEmpty(matches, key) ==
    IF matches # <<>> THEN Matched(matches[1], "fuzzy") ELSE Matched("", "none")

\* "return matches[0] if matches else key"
FirstOrKey(matches, key) ==
    IF matches # <<>> THEN Matched(matches[1], "fuzzy") ELSE Matched(key, "none")

FuzzyStep(key, order, cutoff) == FirstOrKey(get_close_matches(key, order, cutoff), key)

\* a variant that returns the first toggled key without testing that the
\* pool holds it
ToggleStepUntested(key, candidates, order, cutoff) ==
    Matched(ToggleTests(key)[1], "toggle")

ToggleStep(key, candidates, order, cutoff) ==
    LET tests == ToggleTests(key)
        hits == {i \in 1..Len(tests) : tests[i] \in candidates}
    IN  IF hits # {}
        THEN Matched(tests[CHOOSE i \in hits : \A k \in hits : i <= k], "toggle")
        ELSE FuzzyStep(key, order, cutoff)

\* a variant that tries the suffix toggles before the exact test
MatchTogglesFirst(key, candidates, order, cutoff) ==
    LET toggled == ToggleStep(key, candidates, order, cutoff)
    IN  IF toggled.step = "toggle" THEN toggled
        ELSE IF key \in candidates THEN Matched(key, "exact")
        ELSE toggled

\* order: the iteration order of the set candidates
MatchConstituencyKey(key, candidates, order, cutoff) ==
    IF key \in candidates THEN Matched(key, "exact")
    ELSE ToggleStep(key, candidates, order, cutoff)

_match_constituency_key(key, candidates, order, cutoff) ==
    MatchConstituencyKey(key, candidates, order, cutoff).ret

\* the iteration orders of a set: its elements as a sequence, no repeats
IterationOrders(S) ==
    {o \in [1..Cardinality(S) -> S] : \A i, j \in DOMAIN o : i # j => o[i] # o[j]}

(***************************************************************************)
(* Python dict and defaultdict, as functions on the keys present.          *)
(***************************************************************************)
EmptyDict == [k \in {} |-> ""]

DictSet(d, k, v) == [x \in DOMAIN d \cup {k} |-> IF x = k THEN v ELSE d[x]]

\* d.setdefault(k, v)
SetDefault(d, k, v) == IF k \in DOMAIN d THEN d ELSE DictSet(d, k, v)

\* d.get(k): None when k is absent
DictGet(d, k) == IF k \in DOMAIN d THEN Some(d[k]) ELSE None

\* d.get(k, {})
GetOrEmpty(d, k) == IF k \in DOMAIN d THEN d[k] ELSE EmptyDict

\* defaultdict(set): d[k] of a key that may be absent
GetOrEmptySet(d, k) == IF k \in DOMAIN d THEN d[k] ELSE {}

\* "if mapped:" for an Optional[str]
Truthy(mapped) == mapped # None /\ mapped[1] # ""

\* every (k, v) of mapping applied as d.setdefault(k, v)
SetDefaults(d, mapping) ==
    [k \in DOMAIN d \cup DOMAIN mapping |-> IF k \in DOMAIN d THEN d[k] ELSE mapping[k]]

\* every (k, v) of mapping applied as d[k] = v
Overwrite(d, mapping) ==
    [k \in DOMAIN d \cup DOMAIN mapping |-> IF k \in DOMAIN mapping THEN mapping[k] ELSE d[k]]

(***************************************************************************)
(* views._resolve_constituency_key.  The operator returns the key with     *)
(* the step that produced it and the pool the matcher searched; the code   *)
(* returns the key alone.                                                  *)
(***************************************************************************)
Resolved(ret, step, pool) == [ret |-> ret, step |-> step, pool |-> pool]

InDistrictIndex(district_key, dc) == district_key # "" /\ district_key \in DOMAIN dc

\* the pool handed to _match_constituency_key when no alias applies
SearchedPool(district_key, seen, dc) ==
    IF InDistrictIndex(district_key, dc) THEN dc[district_key] ELSE seen

MatchedIn(m, pool) == Resolved(m.ret, m.step, pool)

\* a variant that searches all keys when the district pool has no match
WidenedTo(m, w) == IF m.step = "none" THEN MatchedIn(w, "all") ELSE MatchedIn(m, "district")

MatchInWidening(raw_key, district_key, seen, dc, order, cutoff) ==
    IF InDistrictIndex(district_key, dc)
    THEN WidenedTo(MatchConstituencyKey(raw_key, dc[district_key], order, cutoff),
                   MatchConstituencyKey(raw_key, seen,
                                        CHOOSE o \in IterationOrders(seen) : TRUE, cutoff))
    ELSE MatchedIn(MatchConstituencyKey(raw_key, seen, order, cutoff), "all")

\* a variant that searches all keys whatever the district
MatchInAllKeys(raw_key, district_key, seen, dc, order, cutoff) ==
    MatchedIn(MatchConstituencyKey(raw_key, seen,
                                   CHOOSE o \in IterationOrders(seen) : TRUE, cutoff),
              "all")

\* a variant that raises the cutoff when all keys are searched
MatchInStrictStatewide(raw_key, district_key, seen, dc, order, cutoff) ==
    IF InDistrictIndex(district_key, dc)
    THEN MatchedIn(MatchConstituencyKey(raw_key, dc[district_key], order, cutoff),
                   "district")
    ELSE MatchedIn(MatchConstituencyKey(raw_key, seen, order, 90), "all")

MatchIn(raw_key, district_key, seen, dc, order, cutoff) ==
    MatchedIn(MatchConstituencyKey(raw_key, SearchedPool(district_key, seen, dc),
                                   order, cutoff),
              IF InDistrictIndex(district_key, dc) THEN "district" ELSE "all")

\* a variant that runs the matcher before the aliases
MatchOrAlias(m, scoped, global) ==
    IF m.step # "none" THEN m
    ELSE IF Truthy(scoped) THEN Resolved(scoped[1], "alias_district", "none")
    ELSE IF Truthy(global) THEN Resolved(global[1], "alias_global", "none")
    ELSE m

ResolveMatchFirst(raw_key, district_key, seen, dc, aliases, order, cutoff) ==
    MatchOrAlias(MatchIn(raw_key, district_key, seen, dc, order, cutoff),
                 IF district_key # "" /\ district_key \in DOMAIN aliases
                 THEN DictGet(aliases[district_key], raw_key) ELSE None,
                 DictGet(GetOrEmpty(aliases, ""), raw_key))

\* a variant that looks in the global alias map before the district's
ResolveGlobalAliasFirst(raw_key, district_key, seen, dc, aliases, order, cutoff) ==
    LET scoped == IF district_key # "" /\ district_key \in DOMAIN aliases
                  THEN DictGet(aliases[district_key], raw_key) ELSE None
        global == DictGet(GetOrEmpty(aliases, ""), raw_key)
    IN  IF Truthy(global) THEN Resolved(global[1], "alias_global", "none")
        ELSE IF Truthy(scoped) THEN Resolved(scoped[1], "alias_district", "none")
        ELSE MatchIn(raw_key, district_key, seen, dc, order, cutoff)

\* order: the iteration order of the pool that is searched
ResolveConstituencyKey(raw_key, district_key, seen, dc, aliases, order, cutoff) ==
    LET scoped == IF district_key # "" /\ district_key \in DOMAIN aliases
                  THEN DictGet(aliases[district_key], raw_key) ELSE None
        global == DictGet(GetOrEmpty(aliases, ""), raw_key)
    IN  IF Truthy(scoped) THEN Resolved(scoped[1], "alias_district", "none")
        ELSE IF Truthy(global) THEN Resolved(global[1], "alias_global", "none")
        ELSE MatchIn(raw_key, district_key, seen, dc, order, cutoff)

_resolve_constituency_key(raw_key, district_key, seen, dc, aliases, order, cutoff) ==
    ResolveConstituencyKey(raw_key, district_key, seen, dc, aliases, order, cutoff).ret

(***************************************************************************)
(* The index-building pass of map_data and constituency_detail over the    *)
(* rows of fct_candidates_21.csv, and the hand-curated aliases.            *)
(***************************************************************************)
\* a variant that keeps neither target on a conflict: when the row gives its
\* official key a target other than the one the district's map holds, the
\* entry is blanked
IndexedKeysBlanking(constituency_key, district_key, official_key, seen, dc, aliases) ==
    LET scoped == GetOrEmpty(aliases, district_key)
        kept == IF official_key \in DOMAIN scoped /\ scoped[official_key] # constituency_key
                THEN "" ELSE constituency_key
        a1 == DictSet(aliases, district_key, DictSet(scoped, official_key, kept))
        a2 == DictSet(a1, "", SetDefault(GetOrEmpty(a1, ""), official_key, constituency_key))
    IN  [seen |-> IF constituency_key # "" THEN seen \cup {constituency_key} ELSE seen,
         dc |-> IF constituency_key # "" /\ district_key # ""
                THEN DictSet(dc, district_key,
                             GetOrEmptySet(dc, district_key) \cup {constituency_key})
                ELSE dc,
         aliases |-> IF constituency_key # "" /\ official_key # "" THEN a2 ELSE aliases]

\* a variant that writes the global map by assignment, as it writes the
\* district's
IndexedKeysGlobalLast(constituency_key, district_key, official_key, seen, dc, aliases) ==
    LET scoped == DictSet(GetOrEmpty(aliases, district_key), official_key, constituency_key)
        a1 == DictSet(aliases, district_key, scoped)
        a2 == DictSet(a1, "", DictSet(GetOrEmpty(a1, ""), official_key, constituency_key))
    IN  [seen |-> IF constituency_key # "" THEN seen \cup {constituency_key} ELSE seen,
         dc |-> IF constituency_key # "" /\ district_key # ""
                THEN DictSet(dc, district_key,
                             GetOrEmptySet(dc, district_key) \cup {constituency_key})
                ELSE dc,
         aliases |-> IF constituency_key # "" /\ official_key # "" THEN a2 ELSE aliases]

\* the body of "for row in rows" that the indices depend on
IndexedKeys(constituency_key, district_key, official_key, seen, dc, aliases) ==
    LET dc1 == IF constituency_key # "" /\ district_key # ""
               THEN DictSet(dc, district_key,
                            GetOrEmptySet(dc, district_key) \cup {constituency_key})
               ELSE dc
        scoped == DictSet(GetOrEmpty(aliases, district_key), official_key, constituency_key)
        a1 == DictSet(aliases, district_key, scoped)
        a2 == DictSet(a1, "", SetDefault(GetOrEmpty(a1, ""), official_key, constituency_key))
    IN  [seen |-> IF constituency_key # "" THEN seen \cup {constituency_key} ELSE seen,
         dc |-> dc1,
         aliases |-> IF constituency_key # "" /\ official_key # "" THEN a2 ELSE aliases]

\* a variant that keys the pool by build_dim_constituencies' normaliser
IndexedRowMixed(row, seen, dc, aliases) ==
    IndexedKeys(_normalize(OrEmpty(row.con)), KeyOf(row.dist), KeyOf(row.off), seen, dc,
                aliases)

IndexedRow(row, seen, dc, aliases) ==
    IndexedKeys(KeyOf(row.con), KeyOf(row.dist), KeyOf(row.off), seen, dc, aliases)

explicit_aliases ==
    [k \in {"PALACODU", "THALLI", "SHOZHINGANALLUR", "VANDAVASI", "VANDAVASI SC"} |->
        CASE k = "PALACODU" -> "PALACODE"
          [] k = "THALLI" -> "THALLY"
          [] k = "SHOZHINGANALLUR" -> "SHOLINGANALLUR"
          [] k = "VANDAVASI" -> "VANDAVASI SC"
          [] k = "VANDAVASI SC" -> "VANDAVASI SC"]

VandavasiAliases == [k \in {"VANDAVASI SC", "VANDAVASI"} |-> "VANDAVASI SC"]
TirupatturAlias == [k \in {"TIRUPPATTUR"} |-> "TIRUPATTUR"]
TiruppathurAlias == [k \in {"TIRUPPATTUR"} |-> "TIRUPPATHUR"]

\* explicit_district_aliases of map_data and of constituency_detail
explicit_district_aliases(v) ==
    IF v = "map_data"
    THEN [d \in {"TIRUVANNAMALAI", "TIRUPATHUR", "SIVAGANGA"} |->
            CASE d = "TIRUVANNAMALAI" -> VandavasiAliases
              [] d = "TIRUPATHUR" -> TirupatturAlias
              [] d = "SIVAGANGA" -> TiruppathurAlias]
    ELSE [d \in {"TIRUVANNAMALAI", "VILUPPURAM", "TIRUPATHUR", "VELLORE", "SIVAGANGA"} |->
            CASE d = "TIRUVANNAMALAI" -> VandavasiAliases
              [] d = "VILUPPURAM" -> VandavasiAliases
              [] d = "TIRUPATHUR" -> TirupatturAlias
              [] d = "VELLORE" -> TirupatturAlias
              [] d = "SIVAGANGA" -> TiruppathurAlias]

\* "Force correct global alias for Tirupathur"
forced_global_alias == TirupatturAlias

\* explicit_aliases into the global map and into the map of every district
\* of district_candidates, by setdefault
WithExplicitAliases(aliases, dc) ==
    [d \in DOMAIN aliases \cup {""} \cup DOMAIN dc |->
        IF d = "" \/ d \in DOMAIN dc
        THEN SetDefaults(GetOrEmpty(aliases, d), explicit_aliases)
        ELSE aliases[d]]

\* explicit_district_aliases, by setdefault
WithDistrictAliases(aliases, v) ==
    LET eda == explicit_district_aliases(v)
    IN  [d \in DOMAIN aliases \cup DOMAIN eda |->
            IF d \in DOMAIN eda THEN SetDefaults(GetOrEmpty(aliases, d), eda[d])
            ELSE aliases[d]]

\* alias_by_district[""]["TIRUPPATTUR"] = "TIRUPATTUR"
WithForcedAlias(aliases) ==
    DictSet(aliases, "", Overwrite(GetOrEmpty(aliases, ""), forced_global_alias))

\* the alias table after the three blocks of hand-curated aliases
FinishedAliases(aliases, dc, v) ==
    WithForcedAlias(WithDistrictAliases(WithExplicitAliases(aliases, dc), v))

(***************************************************************************)
(* The variables of a specification that another specification leaves      *)
(* untouched.                                                              *)
(***************************************************************************)
NoCall == [fn |-> "none", key |-> ""]
NoNext == [kind |-> "none", key |-> ""]
NoMatch == Matched("", "not called")

NormIdle ==
    /\ nName = None
    /\ nCall = NoCall
    /\ nNext = NoNext

MatchIdle ==
    /\ mKey = ""
    /\ mPool = {}
    /\ mCutoff = 0
    /\ mOut = NoMatch

NotLoaded == [loaded |-> FALSE, rows |-> <<>>]
NoResolution ==
    [view |-> "none", name |-> None, district |-> None, raw_key |-> "",
     district_key |-> "", ret |-> "", step |-> "not called", pool |-> "none",
     unknown |-> FALSE]

ViewIdle ==
    /\ smla_cache = NotLoaded
    /\ pc = "idle"
    /\ view = "none"
    /\ idx = 0
    /\ constituency_seen = {}
    /\ district_candidates = EmptyDict
    /\ alias_by_district = EmptyDict
    /\ last = NoResolution

\* csv_path.exists() is False
Missing == [exists |-> FALSE, rows |-> <<>>]
NotCalled == <<>>
NoMapping == [loaded |-> FALSE, mapping |-> EmptyDict]
NoLoaderCall == [fn |-> "none", file |-> Missing]

LoadIdle ==
    /\ csv_file = Missing
    /\ official_cache = NoMapping
    /\ smla_ret = NotCalled
    /\ official_ret = NotCalled
    /\ file_at_call = NoLoaderCall

NoFrame == [pc |-> "off"]

\* no web process: the views serve no request
ViewOff ==
    /\ smla_cache = NotLoaded
    /\ pc = "off"
    /\ view = "none"
    /\ idx = 0
    /\ constituency_seen = {}
    /\ district_candidates = EmptyDict
    /\ alias_by_district = EmptyDict
    /\ last = NoResolution

LangIdle ==
    /\ session = EmptyDict
    /\ language_requests = <<>>

ImportIdle ==
    /\ db = <<>>
    /\ importer = NoFrame

AuxIdle ==
    /\ LoadIdle
    /\ download = NoFrame
    /\ sync = NoFrame
    /\ LangIdle
    /\ search = NoFrame
    /\ ImportIdle
    /\ build = NoFrame

(***************************************************************************)
(* SpecMatch: _match_constituency_key applied to a bounded key, pool and   *)
(* cutoff, the pool iterated in any order.                                 *)
(***************************************************************************)
Cutoffs == {0, 85, 90, 100}
PoolsOf(keys) == {S \in SUBSET (keys \ {""}) : Cardinality(S) <= MaxPool}
MatchInit ==
    /\ mKey \in MatchKeys
    /\ mPool \in PoolsOf(MatchKeys)
    /\ mCutoff \in Cutoffs
    /\ mOut = NoMatch
    /\ NormIdle
    /\ ViewIdle
    /\ AuxIdle

\* _match_constituency_key(key, candidates, cutoff)
MatchKey(order) ==
    /\ mOut' = MatchConstituencyKey(mKey, mPool, order, mCutoff)
    /\ UNCHANGED <<mKey, mPool, mCutoff, normVars, viewVars, auxVars>>

MatchNext == \E order \in IterationOrders(mPool) : MatchKey(order)

SpecMatch == MatchInit /\ [][MatchNext]_vars

\* C5: exact beats fuzzy: a key that is in the pool is returned itself, by
\* the exact test, whatever the cutoff.
C5_ExactFirst ==
    (mOut # NoMatch /\ mKey \in mPool) => mOut = Matched(mKey, "exact")

\* C5 witness: the key is in the pool next to a member its suffix toggle
\* would find, the cutoff is the lowest, and the key itself came back.
C5_Witness ==
    /\ mOut = Matched("ARNI", "exact")
    /\ mKey = "ARNI"
    /\ mPool = {"ARNI", "ARNI ST"}
    /\ mCutoff = 0

(***************************************************************************)
(* Suffix toggles and similarity scoring (SpecMatch).                      *)
(***************************************************************************)
\* the similarity of a pool member to the key, as get_close_matches scores it
Score(x) == RatioOf(x, mKey)

SameScore(x, y) == ~RatioLess(Score(x), Score(y)) /\ ~RatioLess(Score(y), Score(x))

EndsWithMarker(key) == EndsWith(key, " SC") \/ EndsWith(key, " ST")

\* C14 as stated: a suffix toggle returns, for a key that ends with " SC" or
\* " ST", the key with that suffix stripped and nothing else, and for a key
\* that ends with neither, key + " SC" if the pool holds it and otherwise
\* key + " ST".
C14_ToggleVariants ==
    mOut.step = "toggle" =>
        IF EndsWithMarker(mKey)
        THEN mOut.ret = Strip(Prefix(mKey, Len(mKey) - 3))
        ELSE mOut.ret = (IF mKey \o " SC" \in mPool THEN mKey \o " SC" ELSE mKey \o " ST")

\* C15: fuzzy selection.  When similarity scoring returns a key, the key is
\* a member of the pool, its similarity to the key sought is at least the
\* cutoff and no member of the pool has a higher one; and when the matcher
\* finds nothing, no member of the pool reaches the cutoff.
C15_FuzzyIsBest ==
    /\ mOut.step = "fuzzy" =>
        /\ mOut.ret \in mPool
        /\ RatioAtLeast(Score(mOut.ret), mCutoff)
        /\ \A x \in mPool : ~RatioLess(Score(mOut.ret), Score(x))
    /\ mOut.step = "none" => \A x \in mPool : ~RatioAtLeast(Score(x), mCutoff)

\* C15 witness: similarity scoring returned one of two pool members that
\* both reach the cutoff, the other with a lower similarity.
C15_Witness ==
    /\ mOut.step = "fuzzy"
    /\ mCutoff > 0
    /\ \E x \in mPool :
        /\ RatioAtLeast(Score(x), mCutoff)
        /\ RatioLess(Score(x), Score(mOut.ret))

\* what _match_constituency_key hands back, as an Optional[str]
Returned == Some(mOut.ret)

\* the matcher's three sources of a match all fail for the key
NothingMatches ==
    /\ mKey \notin mPool
    /\ \A i \in DOMAIN ToggleTests(mKey) : ToggleTests(mKey)[i] \notin mPool
    /\ \A x \in mPool : ~RatioAtLeast(Score(x), mCutoff)

\* C16 as stated: when nothing matches, the matcher returns None and not a
\* str.
C16_NoMatchIsNone ==
    mOut.step = "none" => Returned = None

\* C16: when the pool is empty, or the key is not in the pool, no suffix
\* toggle is and no member reaches the cutoff, the matcher returns the key
\* it was given, unchanged; and it returns from no step only then.
C16_NoMatchIsKey ==
    mOut # NoMatch =>
        /\ mOut.step = "none" <=> NothingMatches
        /\ mPool = {} => mOut.step = "none"
        /\ mOut.step = "none" => Returned = Some(mKey)

\* C16 witness: a non-empty key was sought in a pool of which no member
\* reaches the cutoff, and came back itself.
C16_Witness ==
    /\ mOut = Matched("ARNI", "none")
    /\ mKey = "ARNI"
    /\ mPool = {"HARUR", "ARANI"}
    /\ mCutoff = 90

\* C17 as stated: of the pool members that tie for the highest similarity,
\* similarity scoring returns the lexicographically smallest.
C17_TieSmallest ==
    mOut.step = "fuzzy" =>
        \A x \in mPool : SameScore(x, mOut.ret) => ~StrLess(x, mOut.ret)

\* C17: of the pool members that tie for the highest similarity, similarity
\* scoring returns the lexicographically largest, under every iteration
\* order of the pool.
C17_TieLargest ==
    mOut.step = "fuzzy" =>
        \A x \in mPool : SameScore(x, mOut.ret) => ~StrLess(mOut.ret, x)

\* C17 witness: ARANI and ARINI are equally similar to ARNI, and ARINI came
\* back.
C17_Witness ==
    /\ mOut = Matched("ARINI", "fuzzy")
    /\ mKey = "ARNI"
    /\ mPool = {"ARANI", "ARINI"}
    /\ SameScore("ARANI", "ARINI")

(***************************************************************************)
(* SpecNorm: a normaliser applied to a bounded raw name, then applied to   *)
(* its own result or to the raw name followed by a reservation marker.     *)
(***************************************************************************)
NormAlphabet == {"A", "S", "C", "c", " ", "(", ")"}

RECURSIVE StringsUpTo(_)
StringsUpTo(n) ==
    IF n = 0 THEN {""}
    ELSE LET shorter == StringsUpTo(n - 1)
         IN  shorter \cup {s \o c : s \in shorter, c \in NormAlphabet}

RawNames == StringsUpTo(MaxRawLen)

ReservationMarkers == {" (SC)", " (ST)", " SC", " ST"}
\* a by-election annotation after the name
Annotations == {" : BYE ELECTION 2017", ": BYE ELECTION"}

\* a parenthesised marker whose closing parenthesis is missing
UnclosedMarkers == {"(SC", "(ST", " (SC", " (ST"}

Markers == ReservationMarkers \cup Annotations \cup UnclosedMarkers

\* further characters of a name after a marker
NameTails == {" A"}

Normalisers == {"views", "dim"}

ApplyNormaliser(fn, name) ==
    IF fn = "views" THEN _normalize_constituency_name(name) ELSE _normalize(name[1])

NormInit ==
    /\ nName \in {None} \cup {Some(s) : s \in RawNames}
    /\ nCall = NoCall
    /\ nNext = NoNext
    /\ MatchIdle
    /\ ViewIdle
    /\ AuxIdle

\* key = normalize(name); _normalize is only ever handed a str
NormalizeName(fn) ==
    /\ nCall = NoCall
    /\ fn = "dim" => nName # None
    /\ nCall' = [fn |-> fn, key |-> ApplyNormaliser(fn, nName)]
    /\ UNCHANGED <<nName, nNext, matchVars, viewVars, auxVars>>

\* normalize(normalize(name))
NormalizeAgain ==
    /\ nCall # NoCall
    /\ nNext = NoNext
    /\ nNext' = [kind |-> "again", key |-> ApplyNormaliser(nCall.fn, Some(nCall.key))]
    /\ UNCHANGED <<nName, nCall, matchVars, viewVars, auxVars>>

\* normalize(name + marker)
NormalizeMarked(m) ==
    /\ nCall # NoCall
    /\ nNext = NoNext
    /\ nName # None
    /\ nNext' = [kind |-> m, key |-> ApplyNormaliser(nCall.fn, Some(nName[1] \o m))]
    /\ UNCHANGED <<nName, nCall, matchVars, viewVars, auxVars>>

\* normalize(name + marker + tail), and normalize(name + tail)
NormalizeWithin(m, tail) ==
    /\ nCall # NoCall
    /\ nNext = NoNext
    /\ nName # None
    /\ nNext' = [kind |-> "within", marker |-> m,
                 key |-> ApplyNormaliser(nCall.fn, Some(nName[1] \o m \o tail)),
                 plain |-> ApplyNormaliser(nCall.fn, Some(nName[1] \o tail))]
    /\ UNCHANGED <<nName, nCall, matchVars, viewVars, auxVars>>

NormNext ==
    \/ \E fn \in Normalisers : NormalizeName(fn)
    \/ NormalizeAgain
    \/ \E m \in Markers : NormalizeMarked(m)
    \/ \E m \in ReservationMarkers, tail \in NameTails : NormalizeWithin(m, tail)

SpecNorm == NormInit /\ [][NormNext]_vars

(***************************************************************************)
(* Claims about the normalisers (SpecNorm).                                *)
(***************************************************************************)

\* C9: normalisation is idempotent: for each normaliser, normalising the key
\* it returned gives that key again.
C9_NormIdempotent ==
    nNext.kind = "again" => nNext.key = nCall.key

\* C9 witness: each normaliser has been applied to its own result for a raw
\* name that it changed (here the space-stripping one, dropping a marker).
C9_Witness ==
    /\ nNext.kind = "again"
    /\ nCall.fn = "dim"
    /\ nName = Some("A SC")
    /\ nCall.key = "A"

\* C10 as stated: both normalisers give the same key for N, N (SC), N (ST),
\* N SC and N ST, for every base name N.
C10_MarkerRemoved ==
    nNext.kind \in ReservationMarkers => nNext.key = nCall.key

\* the upper-cased name without parenthesised markers, stripped
DimCore(name) == Strip(DropParenMarkers(Upper(name)))
MarkerWord(m) == IF m \in {" (SC)", " SC"} THEN "SC" ELSE "ST"

\* C10 amended: _normalize drops a trailing parenthesised marker for every
\* N, and a trailing SC/ST word for every N whose core is non-empty and does
\* not itself end in an SC/ST word; _normalize_constituency_name keeps the
\* marker as a trailing word of the key.
C10_MarkerByNormaliser ==
    nNext.kind \in ReservationMarkers =>
        LET m == nNext.kind
            core == DimCore(nName[1])
        IN  /\ (nCall.fn = "dim" /\ m \in {" (SC)", " (ST)"}) => nNext.key = nCall.key
            /\ (nCall.fn = "dim" /\ m \in {" SC", " ST"}
                    /\ core # "" /\ DropTrailingMarker(core) = core)
                => nNext.key = nCall.key
            /\ nCall.fn = "views" =>
                nNext.key = (IF nCall.key = "" THEN MarkerWord(m)
                             ELSE nCall.key \o " " \o MarkerWord(m))

\* C10 witness: a marked name has been normalised by the space-stripping
\* normaliser, which dropped the marker word.
C10_Witness ==
    /\ nNext.kind = " SC"
    /\ nCall.fn = "dim"
    /\ nName = Some("Ac")
    /\ nNext.key = "AC"

(***************************************************************************)
(* Annotations and malformed or misplaced markers (SpecNorm).              *)
(***************************************************************************)
\* C11 as stated: a name followed by a by-election annotation normalises
\* to the key of the name alone.
C11_ByElectionSameKey ==
    nNext.kind \in Annotations => nNext.key = nCall.key

\* C11: neither normaliser removes a by-election annotation: the key of a
\* name followed by the annotation ends with the normalised words of the
\* annotation, and is never the key of the name alone.
C11_AnnotationKept ==
    nNext.kind \in Annotations =>
        /\ nNext.key # nCall.key
        /\ EndsWith(nNext.key, ApplyNormaliser(nCall.fn, Some(nNext.kind)))

\* C11 witness: "Ac : BYE ELECTION 2017" has been normalised by the views'
\* normaliser, after "Ac".
C11_Witness ==
    /\ nNext.kind = " : BYE ELECTION 2017"
    /\ nCall.fn = "views"
    /\ nName = Some("Ac")
    /\ nCall.key = "AC"
    /\ nNext.key = "AC BYE ELECTION 2017"

\* C12 as stated: a reservation marker, bare or parenthesised, that is
\* followed by further characters of the name stays in the key, so that the
\* key differs from the key of the name without the marker.
C12_MarkerWithinKept ==
    nNext.kind = "within" => nNext.key # nNext.plain

\* C13 as stated: a parenthesised marker whose closing parenthesis is
\* missing is removed by _normalize, so that the key is the key of the name
\* alone.
C13_UnclosedMarkerRemoved ==
    (nNext.kind \in UnclosedMarkers /\ nCall.fn = "dim") => nNext.key = nCall.key

(***************************************************************************)
(* Spec: requests served by map_data and constituency_detail.              *)
(***************************************************************************)
Views == {"map_data", "constituency_detail"}

\* cutoff=0.85 of both call sites
ViewCutoff == 85

Init ==
    /\ ViewIdle
    /\ NormIdle
    /\ MatchIdle
    /\ AuxIdle

\* rows = _load_smla_rows(), and the empty indices; content is what the file
\* holds if this is the first call of the process
StartRequest(v, content) ==
    /\ pc = "idle"
    /\ smla_cache' = IF smla_cache.loaded THEN smla_cache
                     ELSE [loaded |-> TRUE, rows |-> content]
    /\ view' = v
    /\ idx' = 0
    /\ constituency_seen' = {}
    /\ district_candidates' = EmptyDict
    /\ alias_by_district' = EmptyDict
    /\ pc' = "rows"
    /\ last' = NoResolution
    /\ UNCHANGED <<normVars, matchVars, auxVars>>

\* the indices after the row at position idx
NextIndex ==
    IndexedRow(smla_cache.rows[idx + 1], constituency_seen, district_candidates,
               alias_by_district)

\* one pass of "for row in rows"
IndexRow ==
    /\ pc = "rows"
    /\ idx < Len(smla_cache.rows)
    /\ constituency_seen' = NextIndex.seen
    /\ district_candidates' = NextIndex.dc
    /\ alias_by_district' = NextIndex.aliases
    /\ idx' = idx + 1
    /\ UNCHANGED <<smla_cache, pc, view, last, normVars, matchVars, auxVars>>

\* explicit_aliases, explicit_district_aliases and the forced global alias
AddExplicitAliases ==
    /\ pc = "rows"
    /\ idx = Len(smla_cache.rows)
    /\ alias_by_district' = FinishedAliases(alias_by_district, district_candidates, view)
    /\ pc' = "resolve"
    /\ UNCHANGED <<smla_cache, view, idx, constituency_seen, district_candidates, last,
                   normVars, matchVars, auxVars>>

\* a variant that reports a key unknown exactly when no step matched it
ResolutionUnknownByStep(v, name, district, raw_key, district_key, seen, r) ==
    [view |-> v, name |-> name, district |-> district,
     raw_key |-> raw_key, district_key |-> district_key,
     ret |-> r.ret, step |-> r.step, pool |-> r.pool,
     unknown |-> r.step = "none"]

\* d[k] read on a defaultdict: an absent key is inserted with the default
Subscripted(d, k, default) == IF k \in DOMAIN d THEN d ELSE DictSet(d, k, default)

\* a variant that reads alias_by_district[district_key] without the test
\* "district_key in alias_by_district"
AliasesAfterUnguardedRead(raw_key, district_key, aliases) ==
    IF district_key # "" THEN Subscripted(aliases, district_key, EmptyDict) ELSE aliases

\* alias_by_district after the reads of _resolve_constituency_key: both
\* subscripts are behind a membership test
AliasesAfterResolve(raw_key, district_key, aliases) ==
    IF district_key # "" /\ district_key \in DOMAIN aliases
    THEN Subscripted(aliases, district_key, EmptyDict)
    ELSE IF raw_key \in DOMAIN GetOrEmpty(aliases, "")
    THEN Subscripted(aliases, "", EmptyDict)
    ELSE aliases

\* district_candidates after the reads of _resolve_constituency_key
CandidatesAfterResolve(district_key, dc) ==
    IF district_key # "" /\ district_key \in DOMAIN dc
    THEN Subscripted(dc, district_key, {})
    ELSE dc

\* what one resolution leaves behind; is_unknown = matched_key not in
\* constituency_seen
Resolution(v, name, district, raw_key, district_key, seen, r) ==
    [view |-> v, name |-> name, district |-> district,
     raw_key |-> raw_key, district_key |-> district_key,
     ret |-> r.ret, step |-> r.step, pool |-> r.pool,
     unknown |-> r.ret \notin seen]

\* one resolution: a feature of map_data's loop, or the one constituency of
\* constituency_detail
ResolveFeature(name, district, order) ==
    /\ pc = "resolve"
    /\ last' = Resolution(view, name, district, KeyOf(name), KeyOf(district),
                          constituency_seen,
                          ResolveConstituencyKey(KeyOf(name), KeyOf(district),
                                                 constituency_seen, district_candidates,
                                                 alias_by_district, order, ViewCutoff))
    /\ constituency_seen' = constituency_seen
    /\ district_candidates' = CandidatesAfterResolve(KeyOf(district), district_candidates)
    /\ alias_by_district' = AliasesAfterResolve(KeyOf(name), KeyOf(district),
                                                alias_by_district)
    /\ pc' = IF view = "map_data" THEN "resolve" ELSE "respond"
    /\ UNCHANGED <<smla_cache, view, idx, normVars, matchVars, auxVars>>

\* the response is sent; the indices were locals of the view
FinishRequest ==
    /\ pc \in {"resolve", "respond"}
    /\ pc' = "idle"
    /\ view' = "none"
    /\ idx' = 0
    /\ constituency_seen' = {}
    /\ district_candidates' = EmptyDict
    /\ alias_by_district' = EmptyDict
    /\ UNCHANGED <<smla_cache, last, normVars, matchVars, auxVars>>

Next ==
    \/ \E v \in Views :
        \E content \in (IF smla_cache.loaded THEN {smla_cache.rows} ELSE CsvContents) :
            StartRequest(v, content)
    \/ IndexRow
    \/ AddExplicitAliases
    \/ \E name \in FeatureNames, district \in FeatureDistricts :
        \E order \in IterationOrders(
                SearchedPool(KeyOf(district), constituency_seen,
                             district_candidates)) :
            ResolveFeature(name, district, order)
    \/ FinishRequest

Spec == Init /\ [][Next]_vars

(***************************************************************************)
(* Properties of the resolutions made by the views.                        *)
(***************************************************************************)
\* last holds a resolution of the request in progress, made with the
\* indices as they are now
Resolving == pc \in {"resolve", "respond"} /\ last.view # "none"

\* the pool searched for last if no alias applied
LastPool == SearchedPool(last.district_key, constituency_seen, district_candidates)

\* the entry of the finished alias table for key in scope: <<target>>, or
\* << >> when there is none
AliasEntry(scope, key) ==
    IF scope \in DOMAIN alias_by_district /\ key \in DOMAIN alias_by_district[scope]
    THEN <<alias_by_district[scope][key]>>
    ELSE <<>>

\* the district-scoped entry consulted for last
LastScoped ==
    IF last.district_key # "" THEN AliasEntry(last.district_key, last.raw_key) ELSE <<>>

\* the global entry consulted for last
LastGlobal == AliasEntry("", last.raw_key)

AliasSteps == {"alias_district", "alias_global"}
MatcherHits == {"exact", "toggle", "fuzzy"}

\* C1: resolution is deterministic.  Whatever requests and resolutions came
\* before and whether or not the loader's cache was filled by this request,
\* resolving the same raw key and district key against the same indices and
\* alias table returns the key that was returned, under every iteration
\* order of the candidate set.
C1_Deterministic ==
    Resolving =>
        \A order \in IterationOrders(LastPool) :
            _resolve_constituency_key(last.raw_key, last.district_key, constituency_seen,
                                      district_candidates, alias_by_district, order,
                                      ViewCutoff) = last.ret

\* C1 witness: a fuzzy match was returned from a pool in which two distinct
\* keys tie for the best score, so that the iteration order could matter.
C1_Witness ==
    /\ Resolving
    /\ last.step = "fuzzy"
    /\ \E x, y \in LastPool :
        /\ x # y
        /\ RatioAtLeast(RatioOf(x, last.raw_key), ViewCutoff)
        /\ ~RatioLess(RatioOf(x, last.raw_key), RatioOf(y, last.raw_key))
        /\ ~RatioLess(RatioOf(y, last.raw_key), RatioOf(x, last.raw_key))

\* C2: alias precedence.  Whenever the finished alias table holds an entry
\* for the key being resolved, in the scope of its district or in the
\* global scope, the resolver returns a target of that entry from an alias
\* step and the matcher is not run, also when the pool holds the key itself
\* or a key that scores above the cutoff.
C2_AliasPrecedence ==
    (Resolving /\ LastScoped \o LastGlobal # <<>>) =>
        /\ last.step \in AliasSteps
        /\ last.pool = "none"
        /\ last.ret \in {LastScoped[i] : i \in DOMAIN LastScoped}
                            \cup {LastGlobal[i] : i \in DOMAIN LastGlobal}

\* C2 witness: the key resolved is itself a member of the pool the matcher
\* would have searched, and the resolver returned a different key from an
\* alias step.
C2_Witness ==
    /\ Resolving
    /\ last.raw_key \in LastPool
    /\ last.step \in AliasSteps
    /\ last.ret # last.raw_key

\* C3: alias lookup order.  The alias map of the district is consulted
\* first and its target returned if the key is present; only when the key
\* is absent there is the global map consulted; when it is absent in both
\* the resolver goes on to the matcher.
C3_AliasLookupOrder ==
    Resolving =>
        /\ LastScoped # <<>> =>
            last.step = "alias_district" /\ last.ret = LastScoped[1]
        /\ (LastScoped = <<>> /\ LastGlobal # <<>>) =>
            last.step = "alias_global" /\ last.ret = LastGlobal[1]
        /\ (LastScoped = <<>> /\ LastGlobal = <<>>) =>
            last.step \in MatcherHits \cup {"none"} /\ last.pool \in {"district", "all"}

\* C3 witness: the key has an entry in the map of its district and another
\* target in the global map, and the district's target was returned.
C3_Witness ==
    /\ Resolving
    /\ LastScoped # <<>>
    /\ LastGlobal # <<>>
    /\ LastGlobal # LastScoped
    /\ last.ret = LastScoped[1]

\* C4 as stated: whenever district_key is non-empty and present in the
\* district index, the key returned is a member of
\* district_candidates[district_key] or of no pool at all, whichever step
\* produced it.
C4_NeverWidens ==
    (Resolving /\ InDistrictIndex(last.district_key, district_candidates)) =>
        \/ last.ret \in district_candidates[last.district_key]
        \/ last.ret \notin constituency_seen

\* C4: whenever district_key is non-empty and present in the district index
\* and no alias entry applies, the matcher searches the pool of that
\* district only: a key it produces by the exact test, a suffix toggle or
\* similarity scoring is a member of district_candidates[district_key], and
\* otherwise the raw key is returned as it is.
C4_MatcherStaysInDistrict ==
    (/\ Resolving
     /\ InDistrictIndex(last.district_key, district_candidates)
     /\ last.step \notin AliasSteps) =>
        /\ last.pool = "district"
        /\ last.step \in MatcherHits =>
            last.ret \in district_candidates[last.district_key]
        /\ last.step = "none" =>
            /\ last.ret = last.raw_key
            /\ last.raw_key \notin district_candidates[last.district_key]

\* C4 witness: no alias applied, the pool of the district held no match and
\* the raw key was returned, while the key is a member of the pool of all
\* keys.
C4_Witness ==
    /\ Resolving
    /\ InDistrictIndex(last.district_key, district_candidates)
    /\ last.step = "none"
    /\ last.ret \in constituency_seen

\* C6 as stated: in the finished alias table every hand-curated alias, of
\* explicit_aliases in the global scope and in the scope of every district
\* of the index and of explicit_district_aliases in its district, maps its
\* key to the hand-curated target, whatever the rows derived for that key.
C6_CuratedWins ==
    (pc \in {"resolve", "respond"}) =>
        /\ \A k \in DOMAIN explicit_aliases :
            \A d \in {""} \cup DOMAIN district_candidates :
                AliasEntry(d, k) = <<explicit_aliases[k]>>
        /\ \A d \in DOMAIN explicit_district_aliases(view) :
            \A k \in DOMAIN explicit_district_aliases(view)[d] :
                AliasEntry(d, k) = <<explicit_district_aliases(view)[d][k]>>

\* C7: empty or None input never matches.  A feature name of None or ""
\* normalises to the empty key, and the resolver returns the empty key from
\* no step: not from an alias, and not from the pool, of which the empty key
\* is never a member.
C7_EmptyNeverMatches ==
    (Resolving /\ last.name \in {None, Some("")}) =>
        /\ last.raw_key = ""
        /\ last.step = "none"
        /\ last.ret = ""
        /\ last.ret \notin constituency_seen
        /\ last.unknown

\* C7 witness: a None name was resolved against a pool that holds keys, in
\* a district of the index.
C7_Witness ==
    /\ Resolving
    /\ last.name = None
    /\ InDistrictIndex(last.district_key, district_candidates)
    /\ LastPool # {}
    /\ last.step = "none"

\* the tier that names a step
Tier(step) ==
    CASE step = "exact" -> "exact"
      [] step \in AliasSteps \cup {"toggle"} -> "alias"
      [] step = "fuzzy" -> "fuzzy"
      [] OTHER -> "unmatched"

\* C8 as stated: what a resolution hands back carries the tier of the step
\* that produced it, so that two resolutions of one request that hand back
\* the same key and the same is_unknown have the same tier.
C8_OutcomeCarriesTier ==
    [][(/\ pc = "resolve" /\ pc' = "resolve"
        /\ last.view # "none" /\ last'.view # "none"
        /\ last'.ret = last.ret /\ last'.unknown = last.unknown)
            => Tier(last'.step) = Tier(last.step)]_vars

\* C8: a resolution hands back a key and nothing else, and the view derives
\* is_unknown from it: is_unknown holds exactly when the key is not in
\* constituency_seen.  The step shows in the key only thus: the exact test
\* returns the raw key, a member of the pool searched; a suffix toggle or
\* similarity scoring returns another member of that pool; an alias step
\* returns the target of the entry; and otherwise the raw key, not a member
\* of the pool searched, is returned.
C8_OutcomeIsKey ==
    Resolving =>
        /\ last.unknown <=> last.ret \notin constituency_seen
        /\ last.step \in AliasSteps \cup MatcherHits \cup {"none"}
        /\ last.step = "exact" => last.ret = last.raw_key /\ last.ret \in LastPool
        /\ last.step \in {"toggle", "fuzzy"} =>
            last.ret # last.raw_key /\ last.ret \in LastPool
        /\ last.step = "alias_district" => <<last.ret>> = LastScoped
        /\ last.step = "alias_global" => <<last.ret>> = LastGlobal
        /\ last.step = "none" => last.ret = last.raw_key /\ last.ret \notin LastPool

\* C8 witness: an alias step returned a key that is in no pool, which the
\* view reports as unknown.
C8_Witness ==
    /\ Resolving
    /\ last.step \in AliasSteps
    /\ last.unknown
    /\ constituency_seen # {}

\* the pool the code selects for last: the district's, if district_key is
\* non-empty and in the district index, and otherwise all keys
SelectedPool ==
    IF last.district_key # "" /\ last.district_key \in DOMAIN district_candidates
    THEN district_candidates[last.district_key]
    ELSE constituency_seen

\* C18: pool selection.  When no alias applies, the matcher is run on
\* district_candidates[district_key] if and only if district_key is
\* non-empty and present in the district index, and on all keys otherwise;
\* the key returned is the matcher's result on that one pool, with no
\* second search of the other.
C18_OnePool ==
    (Resolving /\ last.step \notin AliasSteps) =>
        /\ last.pool = "district" <=>
            (last.district_key # "" /\ last.district_key \in DOMAIN district_candidates)
        /\ last.pool = "all" <=>
            (last.district_key = "" \/ last.district_key \notin DOMAIN district_candidates)
        /\ \A order \in IterationOrders(SelectedPool) :
            last.ret = _match_constituency_key(last.raw_key, SelectedPool, order, ViewCutoff)

\* C18 witness: the feature names a district that is not in the index, and
\* the matcher found its key among all keys.
C18_Witness ==
    /\ Resolving
    /\ last.district_key # ""
    /\ last.district_key \notin DOMAIN district_candidates
    /\ district_candidates # EmptyDict
    /\ last.pool = "all"
    /\ last.step \in MatcherHits

\* the strict cutoff (0.9), in hundredths
StrictCutoff == 90

\* C19 as stated: a fuzzy match found among all keys has a similarity of at
\* least the strict cutoff, a fuzzy match found in the pool of a district
\* one of at least the loose cutoff.
C19_StrictStatewide ==
    (Resolving /\ last.step = "fuzzy") =>
        RatioAtLeast(RatioOf(last.ret, last.raw_key),
                     IF last.pool = "all" THEN StrictCutoff ELSE ViewCutoff)

\* C19: both views pass cutoff=0.85 and the resolver hands it to the
\* matcher for either pool: a fuzzy match has a similarity of at least 0.85
\* whichever pool was searched, and the raw key is returned unmatched only
\* if no member of the pool searched reaches 0.85.
C19_OneCutoff ==
    Resolving =>
        /\ last.step = "fuzzy" => RatioAtLeast(RatioOf(last.ret, last.raw_key), ViewCutoff)
        /\ last.step = "none" =>
            \A x \in SelectedPool : ~RatioAtLeast(RatioOf(x, last.raw_key), ViewCutoff)

\* C19 witness: a fuzzy match was found among all keys with a similarity
\* below the strict cutoff.
C19_Witness ==
    /\ Resolving
    /\ last.pool = "all"
    /\ last.step = "fuzzy"
    /\ ~RatioAtLeast(RatioOf(last.ret, last.raw_key), StrictCutoff)

\* C20: the resolver has no side effects.  A resolution leaves
\* constituency_seen, district_candidates and alias_by_district as they
\* were, the district keys present in the two defaultdicts included, and so
\* do all the resolutions of a map_data request, up to its return.
C20_NoSideEffects ==
    [][(pc = "resolve" /\ pc' # "idle") =>
            /\ constituency_seen' = constituency_seen
            /\ district_candidates' = district_candidates
            /\ alias_by_district' = alias_by_district]_vars

\* C20 witness: map_data has resolved a feature whose district is in
\* neither defaultdict, and the district is still in neither.
C20_Witness ==
    /\ Resolving
    /\ view = "map_data"
    /\ last.district_key # ""
    /\ last.district_key \notin DOMAIN alias_by_district
    /\ last.district_key \notin DOMAIN district_candidates
    /\ constituency_seen # {}

(***************************************************************************)
(* Properties of the finished alias table.                                 *)
(***************************************************************************)
\* the index pass and the curated blocks are done
Built == pc \in {"resolve", "respond"}

\* the targets the rows give key in scope: a row writes its working key
\* under its official key into the map of its district and into the global
\* map
RowTargets(scope, key) ==
    {KeyOf(smla_cache.rows[i].con) : i \in
        {j \in 1..Len(smla_cache.rows) :
            /\ KeyOf(smla_cache.rows[j].con) # ""
            /\ key # ""
            /\ KeyOf(smla_cache.rows[j].off) = key
            /\ scope \in {"", KeyOf(smla_cache.rows[j].dist)}}}

\* the targets the hand-curated blocks give key in scope
CuratedTargets(scope, key) ==
    {explicit_aliases[k] : k \in
        {x \in DOMAIN explicit_aliases :
            x = key /\ scope \in {""} \cup DOMAIN district_candidates}}
    \cup {explicit_district_aliases(view)[d][key] : d \in
        {x \in DOMAIN explicit_district_aliases(view) :
            x = scope /\ key \in DOMAIN explicit_district_aliases(view)[x]}}
    \cup {forced_global_alias[k] : k \in
        {x \in DOMAIN forced_global_alias : x = key /\ scope = ""}}

GivenTargets(scope, key) == RowTargets(scope, key) \cup CuratedTargets(scope, key)

\* the scopes and keys an entry can be given for
AliasScopes ==
    {""} \cup DOMAIN alias_by_district \cup DOMAIN district_candidates
         \cup DOMAIN explicit_district_aliases(view)
         \cup {KeyOf(smla_cache.rows[i].dist) : i \in 1..Len(smla_cache.rows)}
AliasKeys ==
    DOMAIN explicit_aliases \cup DOMAIN forced_global_alias
        \cup {"VANDAVASI SC", "VANDAVASI", "TIRUPPATTUR"}
        \cup UNION {DOMAIN alias_by_district[d] : d \in DOMAIN alias_by_district}
        \cup {KeyOf(smla_cache.rows[i].off) : i \in 1..Len(smla_cache.rows)}

\* C21 as stated: conflicting alias entries are rejected at build time.  If
\* two rows, or a row and a curated entry, give one key two different
\* targets within one scope, construction fails, so that a table is never
\* finished from such sources.
C21_ConflictRejected ==
    Built =>
        \A scope \in AliasScopes, key \in AliasKeys :
            Cardinality(GivenTargets(scope, key)) <= 1

\* C21: conflicting alias entries are not rejected.  If two rows, or a row
\* and a curated entry, give one key two different targets within one scope,
\* construction completes and the table keeps one of the targets: every key
\* that is given a target in a scope has an entry there, and the target of
\* every entry is one of those given.
C21_ConflictKeepsOne ==
    Built =>
        \A scope \in AliasScopes, key \in AliasKeys :
            /\ GivenTargets(scope, key) # {} => AliasEntry(scope, key) # <<>>
            /\ AliasEntry(scope, key) # <<>> =>
                AliasEntry(scope, key)[1] \in GivenTargets(scope, key)

\* C21 witness: two rows of one district gave one official key two working
\* keys, and the finished table holds one of them.
C21_Witness ==
    /\ Built
    /\ \E scope \in AliasScopes \ {""}, key \in AliasKeys :
        /\ Cardinality(RowTargets(scope, key)) = 2
        /\ AliasEntry(scope, key) # <<>>

\* C23: the key returned by _resolve_constituency_key is the non-empty
\* target of an alias entry for raw_key, in the scope of the district or in
\* the global scope, or a member of the pool that was searched, or raw_key
\* itself unchanged; no other string is returned.
C23_AliasPoolOrRawKey ==
    Resolving =>
        \/ last.ret # "" /\ <<last.ret>> \in {LastScoped, LastGlobal}
        \/ last.ret \in SelectedPool
        \/ last.ret = last.raw_key

\* C23 witness: with a pool that holds keys, the resolver returned the
\* target of a global alias entry, which is neither the raw key nor a member
\* of the pool.
C23_Witness ==
    /\ Resolving
    /\ SelectedPool # {}
    /\ LastScoped = <<>>
    /\ <<last.ret>> = LastGlobal
    /\ last.ret # last.raw_key
    /\ last.ret \notin SelectedPool

\* the rows indexed so far that carry official key k: a non-empty working
\* key and const_off normalising to k
Carriers(k) ==
    {j \in 1..idx : KeyOf(smla_cache.rows[j].con) # "" /\ KeyOf(smla_cache.rows[j].off) = k}

\* the carriers of k in district d
CarriersIn(k, d) == {j \in Carriers(k) : KeyOf(smla_cache.rows[j].dist) = d}

First(S) == CHOOSE j \in S : \A x \in S : j <= x
Last(S) == CHOOSE j \in S : \A x \in S : x <= j

\* the official keys and district keys of the rows indexed so far
OfficialKeys == {KeyOf(smla_cache.rows[j].off) : j \in 1..idx} \ {""}
DistrictKeys == {KeyOf(smla_cache.rows[j].dist) : j \in 1..idx} \ {""}

\* C24: during the index-building pass the global alias of an official key
\* is the working key of the first row that carries the official key, as
\* long as every later row that carries it has a non-empty district key,
\* and the alias in the scope of a district is the working key of the last
\* row of that district that carries the official key.
C24_FirstGlobalLastScoped ==
    pc = "rows" =>
        \A k \in OfficialKeys :
            Carriers(k) # {} =>
                /\ (\A j \in Carriers(k) \ {First(Carriers(k))} :
                        KeyOf(smla_cache.rows[j].dist) # "") =>
                    AliasEntry("", k) = <<KeyOf(smla_cache.rows[First(Carriers(k))].con)>>
                /\ \A d \in DistrictKeys :
                    CarriersIn(k, d) # {} =>
                        AliasEntry(d, k) = <<KeyOf(smla_cache.rows[Last(CarriersIn(k, d))].con)>>

\* C24 witness: two rows of one district carried one official key with
\* different working keys; the global alias is the first row's and the
\* district's alias the second row's.
C24_Witness ==
    /\ pc = "rows"
    /\ idx = 2
    /\ \E k \in OfficialKeys, d \in DistrictKeys :
        /\ CarriersIn(k, d) = {1, 2}
        /\ AliasEntry("", k) = <<KeyOf(smla_cache.rows[1].con)>>
        /\ AliasEntry(d, k) = <<KeyOf(smla_cache.rows[2].con)>>
        /\ AliasEntry("", k) # AliasEntry(d, k)

(***************************************************************************)
(* SpecLoad: the memoised loaders _load_smla_rows and                      *)
(* _load_official_constituencies of one process, called any number of      *)
(* times while fct_candidates_21.csv appears, changes and disappears.      *)
(***************************************************************************)
\* the rows the file holds in SpecLoad
LoadRows ==
    { Row(Some("Vandavasi"), Some("Tiruvannamalai"), Some("Vandavasi")),
      Row(Some("Vandavasi"), Some(""), Some("Vandavasi (SC)")) }

Present(rows) == [exists |-> TRUE, rows |-> rows]

FileContents ==
    {Missing} \cup {Present(rows) : rows \in UNION {[1..n -> LoadRows] : n \in 0..MaxRows}}

\* the body of _load_smla_rows
ReadSmlaRows(file) == IF ~file.exists THEN <<>> ELSE file.rows

\* "if key and official and key not in mapping: mapping[key] = official"
WithOfficial(mapping, key, official) ==
    IF key # "" /\ official # "" /\ key \notin DOMAIN mapping
    THEN DictSet(mapping, key, official)
    ELSE mapping

RECURSIVE OfficialMapping(_, _)
OfficialMapping(rows, mapping) ==
    IF rows = <<>> THEN mapping
    ELSE OfficialMapping(Tail(rows),
                         WithOfficial(mapping, KeyOf(Some(Strip(OrEmpty(Head(rows).con)))),
                                      Strip(OrEmpty(Head(rows).off))))

\* the body of _load_official_constituencies
ReadOfficial(file) == IF ~file.exists THEN EmptyDict ELSE OfficialMapping(file.rows, EmptyDict)

\* a variant that keeps a result only if it holds rows
LoadSmlaRowsKeepingRows(cache, file) ==
    IF cache.loaded /\ cache.rows # <<>> THEN cache
    ELSE [loaded |-> TRUE, rows |-> ReadSmlaRows(file)]

\* @lru_cache(maxsize=1) on a function of no arguments: the body runs at the
\* first call only
LoadSmlaRows(cache, file) ==
    IF cache.loaded THEN cache ELSE [loaded |-> TRUE, rows |-> ReadSmlaRows(file)]

LoadOfficial(cache, file) ==
    IF cache.loaded THEN cache ELSE [loaded |-> TRUE, mapping |-> ReadOfficial(file)]

LoadInit ==
    /\ LoadIdle
    /\ NormIdle
    /\ MatchIdle
    /\ ViewIdle
    /\ download = NoFrame
    /\ sync = NoFrame
    /\ LangIdle
    /\ search = NoFrame
    /\ ImportIdle
    /\ build = NoFrame

notLoadVars ==
    <<normVars, matchVars, pc, view, idx, indexVars, last, download, sync, langVars, search,
      importVars, build>>

\* the file is written, replaced or removed
ChangeFile(file) ==
    /\ file # csv_file
    /\ csv_file' = file
    /\ UNCHANGED <<smla_cache, official_cache, smla_ret, official_ret, file_at_call,
                   notLoadVars>>

\* rows = _load_smla_rows()
CallLoadSmlaRows ==
    /\ smla_cache' = LoadSmlaRows(smla_cache, csv_file)
    /\ smla_ret' = Some(smla_cache'.rows)
    /\ file_at_call' = [fn |-> "_load_smla_rows", file |-> csv_file]
    /\ UNCHANGED <<csv_file, official_cache, official_ret, notLoadVars>>

\* official_lookup = _load_official_constituencies()
CallLoadOfficial ==
    /\ official_cache' = LoadOfficial(official_cache, csv_file)
    /\ official_ret' = Some(official_cache'.mapping)
    /\ file_at_call' = [fn |-> "_load_official_constituencies", file |-> csv_file]
    /\ UNCHANGED <<csv_file, smla_cache, smla_ret, notLoadVars>>

LoadNext ==
    \/ \E file \in FileContents : ChangeFile(file)
    \/ CallLoadSmlaRows
    \/ CallLoadOfficial

SpecLoad == LoadInit /\ [][LoadNext]_vars

\* C25: memoised loaders never refresh.  The first call of a loader returns
\* what the file holds then, the empty result if the file is missing, and
\* every later call returns what the call before it returned, whatever
\* happened to the file in between.
C25_NeverRefresh ==
    [][/\ smla_ret # NotCalled => smla_ret' = smla_ret
       /\ official_ret # NotCalled => official_ret' = official_ret
       /\ (smla_ret = NotCalled /\ smla_ret' # NotCalled) =>
            /\ smla_ret' = Some(ReadSmlaRows(csv_file))
            /\ ~csv_file.exists => smla_ret' = Some(<<>>)
       /\ (official_ret = NotCalled /\ official_ret' # NotCalled) =>
            /\ official_ret' = Some(ReadOfficial(csv_file))
            /\ ~csv_file.exists => official_ret' = Some(EmptyDict)]_vars

\* C25 witness: _load_smla_rows was called while the file held rows and
\* returned the empty list of its first call, made when the file was
\* missing.
C25_Witness ==
    /\ file_at_call.fn = "_load_smla_rows"
    /\ file_at_call.file.exists
    /\ file_at_call.file.rows # <<>>
    /\ smla_ret = Some(<<>>)
    /\ official_ret = Some(EmptyDict)

(***************************************************************************)
(* SpecDownload: one call of download_file.  Every urlopen succeeds, times *)
(* out, fails with a URLError or fails with another exception.  backoff    *)
(* and the sleeps are in tenths of a second.                               *)
(***************************************************************************)
Retryable == {"TimeoutError", "URLError"}
AttemptOutcomes == {"ok", "OSError"} \cup Retryable
Backoffs == {0, 15}
\* dest: missing (-1), empty, or not empty
DestSizes == {-1, 0, 1}

\* a variant that gives up one failure early
ExhaustedEarly(attempt, retries) == attempt >= retries

\* "if attempt > retries: raise exc"
Exhausted(attempt, retries) == attempt > retries

DownloadFrame(retries, backoff, skip_existing, size) ==
    [pc |-> "start", retries |-> retries, backoff |-> backoff,
     skip_existing |-> skip_existing, size |-> size, attempt |-> 0,
     results |-> <<>>, slept |-> <<>>, ret |-> "", raised |-> ""]

DownloadInit ==
    /\ download \in {DownloadFrame(retries, backoff, skip_existing, size) :
                        retries \in 0..MaxRetries, backoff \in Backoffs,
                        skip_existing \in BOOLEAN, size \in DestSizes}
    /\ NormIdle
    /\ MatchIdle
    /\ ViewIdle
    /\ LoadIdle
    /\ sync = NoFrame
    /\ LangIdle
    /\ search = NoFrame
    /\ ImportIdle
    /\ build = NoFrame

notDownloadVars ==
    <<normVars, matchVars, viewVars, loadVars, sync, langVars, search, importVars, build>>

\* "if skip_existing and dest.exists() and dest.stat().st_size > 0: return dest"
EnterDownload ==
    /\ download.pc = "start"
    /\ download' = IF download.skip_existing /\ download.size > 0
                    THEN [download EXCEPT !.pc = "returned", !.ret = "dest"]
                    ELSE [download EXCEPT !.pc = "request", !.attempt = 0]
    /\ UNCHANGED notDownloadVars

\* the frame after one pass of the try block with the given outcome
AfterAttempt(f, outcome) ==
    IF outcome = "ok"
    THEN [f EXCEPT !.pc = "returned", !.ret = "dest", !.size = 1,
                   !.results = Append(f.results, outcome)]
    ELSE IF outcome \in Retryable
    THEN IF Exhausted(f.attempt + 1, f.retries)
         THEN [f EXCEPT !.pc = "raised", !.raised = outcome, !.attempt = f.attempt + 1,
                        !.results = Append(f.results, outcome)]
         ELSE [f EXCEPT !.pc = "sleep", !.attempt = f.attempt + 1,
                        !.results = Append(f.results, outcome)]
    ELSE [f EXCEPT !.pc = "raised", !.raised = outcome,
                   !.results = Append(f.results, outcome)]

\* one pass of "while True"
AttemptDownload(outcome) ==
    /\ download.pc = "request"
    /\ download' = AfterAttempt(download, outcome)
    /\ UNCHANGED notDownloadVars

\* time.sleep(backoff * attempt)
SleepDownload ==
    /\ download.pc = "sleep"
    /\ download' = [download EXCEPT
                        !.pc = "request",
                        !.slept = Append(download.slept, download.backoff * download.attempt)]
    /\ UNCHANGED notDownloadVars

DownloadNext ==
    \/ EnterDownload
    \/ \E outcome \in AttemptOutcomes : AttemptDownload(outcome)
    \/ SleepDownload

SpecDownload == DownloadInit /\ [][DownloadNext]_vars

LastOf(seq) == seq[Len(seq)]

\* C26: download_file makes at most retries+1 requests.  It returns the
\* destination path on the first request that succeeds; it has waited
\* backoff*attempt after the attempt-th failure before every further
\* request; after the (retries+1)-th TimeoutError or URLError it raises
\* that error; and any other exception is raised when it first occurs.
C26_BoundedRetries ==
    download.pc # "off" =>
        /\ Len(download.results) <= download.retries + 1
        /\ \A i \in 1..(Len(download.results) - 1) : download.results[i] \in Retryable
        /\ download.pc = "returned" =>
            /\ download.ret = "dest"
            /\ download.results # <<>> => LastOf(download.results) = "ok"
        /\ download.results # <<>> =>
            /\ LastOf(download.results) = "ok" => download.pc = "returned"
            /\ LastOf(download.results) \notin Retryable \cup {"ok"} =>
                download.pc = "raised" /\ download.raised = LastOf(download.results)
            /\ (LastOf(download.results) \in Retryable
                    /\ Len(download.results) = download.retries + 1) =>
                download.pc = "raised" /\ download.raised = LastOf(download.results)
        /\ (download.pc = "raised" /\ download.raised \in Retryable) =>
            Len(download.results) = download.retries + 1
        /\ \A i \in DOMAIN download.slept : download.slept[i] = download.backoff * i
        /\ download.pc = "request" => Len(download.slept) = Len(download.results)
        /\ download.pc \in {"returned", "raised"} =>
            Len(download.slept) = Len(download.results) - 1 \/ download.results = <<>>

\* C26 witness: with retries=2 and backoff=1.5 the third failure was raised,
\* after waits of 1.5 and 3.0 seconds.
C26_Witness ==
    /\ download.pc = "raised"
    /\ download.retries = 2
    /\ download.results = <<"TimeoutError", "URLError", "TimeoutError">>
    /\ download.slept = <<15, 30>>
    /\ download.raised = "TimeoutError"

(***************************************************************************)
(* SpecSync: one run of the command sync_election_data.  A sub-command     *)
(* returns or raises an Exception.                                         *)
(***************************************************************************)
\* the call_command sites of handle, in the order of the code
SubCommands ==
    <<"sync_constituencies_geojson", "sync_tnla2021_form21e", "import_results_csv",
      "sync_ntk_2026_announcements", "sync_myneta_tn2021", "sync_manifestos_index">>

\* the warning written when the sub-command raises
Warnings ==
    <<"GeoJSON sync failed", "Form 21E sync failed", "Results CSV import failed",
      "2026 NTK announcements failed", "MyNeta 2021 sync failed", "Manifesto sync failed">>

\* the condition in front of each call_command
SubCommandEnabled(i, options) ==
    CASE i = 1 -> options.with_geojson
      [] i = 2 -> options.with_form21e /\ ~options.skip_form21e
      [] i = 3 -> options.results_csv_path # "" \/ options.results_csv_url # ""
      [] i = 4 -> TRUE
      [] i = 5 -> TRUE
      [] i = 6 -> options.manifesto_index_url # "" \/ options.manifesto_index_path # ""

SyncOptions ==
    [with_geojson : BOOLEAN, with_form21e : BOOLEAN, skip_form21e : BOOLEAN,
     results_csv_path : {"", "results.csv"}, results_csv_url : {"", "http://results"},
     manifesto_index_url : {"", "http://index"}, manifesto_index_path : {"", "index.json"}]

SubCommandOutcomes == {"ok", "Exception"}

SyncInit ==
    /\ sync \in {[pc |-> "run", step |-> 1, options |-> options, ran |-> <<>>,
                    failed |-> <<>>, stdout |-> <<>>, raised |-> FALSE] :
                        options \in SyncOptions}
    /\ NormIdle
    /\ MatchIdle
    /\ ViewIdle
    /\ LoadIdle
    /\ download = NoFrame
    /\ LangIdle
    /\ search = NoFrame
    /\ ImportIdle
    /\ build = NoFrame

notSyncVars ==
    <<normVars, matchVars, viewVars, loadVars, download, langVars, search, importVars, build>>

\* a variant without the try blocks: the exception of a sub-command ends
\* the command
AfterSubCommandRaising(f, outcome) ==
    IF ~SubCommandEnabled(f.step, f.options) THEN [f EXCEPT !.step = f.step + 1]
    ELSE IF outcome = "ok"
    THEN [f EXCEPT !.step = f.step + 1, !.ran = Append(f.ran, SubCommands[f.step])]
    ELSE [f EXCEPT !.pc = "done", !.raised = TRUE,
                   !.ran = Append(f.ran, SubCommands[f.step]),
                   !.failed = Append(f.failed, SubCommands[f.step])]

\* "if <condition>: try: call_command(...) except Exception as exc:
\* self.stdout.write(WARNING(...))"
AfterSubCommand(f, outcome) ==
    IF ~SubCommandEnabled(f.step, f.options) THEN [f EXCEPT !.step = f.step + 1]
    ELSE IF outcome = "ok"
    THEN [f EXCEPT !.step = f.step + 1, !.ran = Append(f.ran, SubCommands[f.step])]
    ELSE [f EXCEPT !.step = f.step + 1,
                   !.ran = Append(f.ran, SubCommands[f.step]),
                   !.failed = Append(f.failed, SubCommands[f.step]),
                   !.stdout = Append(f.stdout, Warnings[f.step])]

\* one of the six blocks of handle
RunSubCommand(outcome) ==
    /\ sync.pc = "run"
    /\ sync.step <= Len(SubCommands)
    /\ SubCommandEnabled(sync.step, sync.options) \/ outcome = "ok"
    /\ sync' = AfterSubCommand(sync, outcome)
    /\ UNCHANGED notSyncVars

\* self.stdout.write(SUCCESS("Sync complete."))
CompleteSync ==
    /\ sync.pc = "run"
    /\ sync.step = Len(SubCommands) + 1
    /\ sync' = [sync EXCEPT !.pc = "done", !.stdout = Append(sync.stdout, "Sync complete.")]
    /\ UNCHANGED notSyncVars

SyncNext ==
    \/ \E outcome \in SubCommandOutcomes : RunSubCommand(outcome)
    \/ CompleteSync

SpecSync == SyncInit /\ [][SyncNext]_vars

\* the enabled sub-commands among the first n, in the fixed order
RECURSIVE EnabledAmong(_, _)
EnabledAmong(n, options) ==
    IF n = 0 THEN <<>>
    ELSE EnabledAmong(n - 1, options)
            \o (IF SubCommandEnabled(n, options) THEN <<SubCommands[n]>> ELSE <<>>)

\* the warning of a sub-command
WarningOf(command) ==
    Warnings[CHOOSE i \in DOMAIN SubCommands : SubCommands[i] = command]

\* C27: sync_election_data runs its enabled sub-commands in the fixed order
\* geojson, form21e, results CSV, NTK 2026 announcements, MyNeta 2021,
\* manifestos index.  Whatever sub-commands raised, each one is reported by
\* its warning and every enabled sub-command behind it is run, and the
\* command ends by writing "Sync complete." without raising.
C27_FixedOrderAndWarnings ==
    sync.pc # "off" =>
        /\ ~sync.raised
        /\ sync.pc = "run" => sync.ran = EnabledAmong(sync.step - 1, sync.options)
        /\ sync.pc = "run" => sync.stdout = [i \in DOMAIN sync.failed |-> WarningOf(sync.failed[i])]
        /\ sync.pc = "done" =>
            /\ sync.ran = EnabledAmong(Len(SubCommands), sync.options)
            /\ sync.stdout = [i \in DOMAIN sync.failed |-> WarningOf(sync.failed[i])]
                                \o <<"Sync complete.">>

\* C27 witness: all six sub-commands were enabled, the first and the fifth
\* raised, all six were run and the command ended with "Sync complete.".
C27_Witness ==
    /\ sync.pc = "done"
    /\ sync.ran = SubCommands
    /\ sync.failed = <<"sync_constituencies_geojson", "sync_myneta_tn2021">>
    /\ LastOf(sync.stdout) = "Sync complete."

(***************************************************************************)
(* SpecLang: set_language requests on one session, with any language in    *)
(* the URL.                                                                *)
(***************************************************************************)
SupportedLanguages == {"en", "ta"}

\* <str:language> of the route
LanguageArgs == {"en", "ta", "fr", "EN", "ta ", "tamil"}

\* a variant that stores the language as given
StoredAsGiven(language) == language

\* "if language not in {"en", "ta"}: language = "en""
StoredLanguage(language) ==
    IF language \notin SupportedLanguages THEN "en" ELSE language

\* request.session.get("language", "en")
language_toggle(s) == IF "language" \in DOMAIN s THEN s["language"] ELSE "en"

LangInit ==
    /\ LangIdle
    /\ NormIdle
    /\ MatchIdle
    /\ ViewIdle
    /\ LoadIdle
    /\ download = NoFrame
    /\ sync = NoFrame
    /\ search = NoFrame
    /\ ImportIdle
    /\ build = NoFrame

notLangVars ==
    <<normVars, matchVars, viewVars, loadVars, download, sync, search, importVars, build>>

\* set_language(request, language)
SetLanguage(language) ==
    /\ Len(language_requests) < MaxRequests
    /\ session' = DictSet(session, "language", StoredLanguage(language))
    /\ language_requests' = Append(language_requests, language)
    /\ UNCHANGED notLangVars

LangNext == \E language \in LanguageArgs : SetLanguage(language)

SpecLang == LangInit /\ [][LangNext]_vars

\* C28: after any sequence of set_language requests the language of the
\* session is "en" or "ta": the session holds the argument of the last
\* request if it is a supported language and "en" otherwise, and a session
\* no request was made on reads as "en".
C28_LanguageSupported ==
    /\ language_toggle(session) \in SupportedLanguages
    /\ language_requests # <<>> =>
        /\ "language" \in DOMAIN session
        /\ LastOf(language_requests) \in SupportedLanguages =>
            session["language"] = LastOf(language_requests)
        /\ LastOf(language_requests) \notin SupportedLanguages =>
            session["language"] = "en"

\* C28 witness: the session was set to "ta", and a request for "fr" then
\* stored "en".
C28_Witness ==
    /\ language_requests = <<"ta", "fr">>
    /\ session["language"] = "en"

(***************************************************************************)
(* SpecImport: the command import_dim_constituencies, run twice on one     *)
(* CSV.  The Constituency table is the sequence of the names of its        *)
(* records; handle runs in one transaction, which an exception rolls back. *)
(***************************************************************************)
\* a row of dim_constituencies.csv: the columns that decide what handle does
DimRow(constituency_name, population) ==
    [constituency_name |-> constituency_name, population |-> population]

\* the values of the column constituency_name
ImportNames == {"", "Ponneri", "PONNERI (SC)", " Harur", "(SC)"}

DimRows == {DimRow(name, population) : name \in ImportNames, population \in {"", "1000"}}

DimFiles ==
    {Missing} \cup {Present(rows) : rows \in UNION {[1..n -> DimRows] : n \in 0..MaxRows}}

\* the records the table holds before the first run
InitialTables == {<<>>, <<"Ponneri">>, <<"Harur", "PONNERI (SC)">>}

\* _normalize evaluated once for each name considered
DimNames == {Strip(name) : name \in ImportNames} \cup {"Harur"}
DimKeys == [name \in DimNames |-> _normalize(name)]
DimKeyOf(name) == IF name \in DimNames THEN DimKeys[name] ELSE _normalize(name)

NamesOf(table) == {table[i] : i \in DOMAIN table}

\* the record that "for c in Constituency.objects.all()" leaves under norm:
\* the last in the ordering of the model, by name
LastNamed(names) == CHOOSE n \in names : \A m \in names : m = n \/ StrLess(m, n)

\* a variant that keys the records by their name as it is stored
IndexByName(table) == [name \in NamesOf(table) |-> name]

\* constituencies_by_norm[_normalize(c.name)] = c, for every record
IndexByNorm(table) ==
    [norm \in {DimKeyOf(name) : name \in NamesOf(table)} |->
        LastNamed({name \in NamesOf(table) : DimKeyOf(name) = norm})]

\* Constituency has no field for a decimal or int column of FIELD_MAP:
\* getattr(constituency, model_field) raises for a value that parses
RaisesAttributeError(row) == row.population # ""

ImportFrame(file, table) ==
    [pc |-> "start", run |-> 1, file |-> file, idx |-> 0,
     constituencies_by_norm |-> EmptyDict, indexed |-> <<>>, norm |-> "",
     created |-> 0, at_start |-> table,
     first |-> "", created_first |-> 0, after_first |-> <<>>]

ImportInit ==
    /\ db \in InitialTables
    /\ importer \in {ImportFrame(file, db) : file \in DimFiles}
    /\ NormIdle
    /\ MatchIdle
    /\ ViewOff
    /\ LoadIdle
    /\ download = NoFrame
    /\ sync = NoFrame
    /\ LangIdle
    /\ search = NoFrame
    /\ build = NoFrame

notImportVars ==
    <<normVars, matchVars, viewVars, loadVars, download, sync, langVars, search, build>>

\* the file is read and the records are indexed
StartImport ==
    /\ importer.pc = "start"
    /\ importer' =
        IF ~importer.file.exists THEN [importer EXCEPT !.pc = "raised"]
        ELSE IF importer.file.rows = <<>> THEN [importer EXCEPT !.pc = "done"]
        ELSE [importer EXCEPT !.pc = "rows", !.indexed = db,
                              !.constituencies_by_norm = IndexByNorm(db)]
    /\ UNCHANGED <<db, notImportVars>>

\* the frame and the table after the body of "for row in rows"
AfterImportRow(f, table, row, csv_name) ==
    IF csv_name = "" THEN [f |-> [f EXCEPT !.idx = f.idx + 1], db |-> table]
    ELSE IF DimKeyOf(csv_name) \in DOMAIN f.constituencies_by_norm
    THEN IF RaisesAttributeError(row)
         THEN [f |-> [f EXCEPT !.pc = "raised", !.idx = f.idx + 1,
                               !.norm = DimKeyOf(csv_name)],
               db |-> f.at_start]
         ELSE [f |-> [f EXCEPT !.idx = f.idx + 1, !.norm = DimKeyOf(csv_name)],
               db |-> table]
    ELSE IF RaisesAttributeError(row) \/ csv_name \in NamesOf(table)
    THEN [f |-> [f EXCEPT !.pc = "raised", !.idx = f.idx + 1,
                          !.norm = DimKeyOf(csv_name), !.created = f.created + 1],
          db |-> f.at_start]
    ELSE [f |-> [f EXCEPT !.idx = f.idx + 1, !.norm = DimKeyOf(csv_name),
                          !.created = f.created + 1],
          db |-> Append(table, csv_name)]

\* one pass of "for row in rows"; a record not found is created and saved
ImportRow ==
    /\ importer.pc = "rows"
    /\ importer.idx < Len(importer.file.rows)
    /\ importer' = AfterImportRow(importer, db, importer.file.rows[importer.idx + 1],
                                   Strip(importer.file.rows[importer.idx + 1].constituency_name)).f
    /\ db' = AfterImportRow(importer, db, importer.file.rows[importer.idx + 1],
                             Strip(importer.file.rows[importer.idx + 1].constituency_name)).db
    /\ UNCHANGED notImportVars

\* "Done: ... updated, ... created, ... skipped", and the commit
FinishImport ==
    /\ importer.pc = "rows"
    /\ importer.idx = Len(importer.file.rows)
    /\ importer' = [importer EXCEPT !.pc = "done"]
    /\ UNCHANGED <<db, notImportVars>>

\* the command is run again, on the same file
RunImportAgain ==
    /\ importer.pc \in {"done", "raised"}
    /\ importer.run = 1
    /\ importer' = [ImportFrame(importer.file, db) EXCEPT
                        !.run = 2, !.first = importer.pc,
                        !.created_first = importer.created, !.after_first = db]
    /\ UNCHANGED <<db, notImportVars>>

ImportNext ==
    \/ StartImport
    \/ ImportRow
    \/ FinishImport
    \/ RunImportAgain

SpecImport == ImportInit /\ [][ImportNext]_vars

\* C30: import_dim_constituencies is idempotent with respect to record
\* creation.  A second run on the same CSV leaves the table with the
\* records it had after the first run; and if the first run completed, the
\* second finds a record for every named row and creates none.
C30_SecondRunCreatesNothing ==
    importer.run = 2 =>
        /\ importer.pc \in {"done", "raised"} => db = importer.after_first
        /\ importer.first = "done" =>
            /\ importer.created = 0
            /\ importer.pc # "raised"
            /\ db = importer.after_first

\* C30 witness: the first run created two records whose names share
\* nothing with the one record of the table, and the second run went
\* through both rows and created none.
C30_Witness ==
    /\ importer.run = 2
    /\ importer.pc = "done"
    /\ importer.first = "done"
    /\ importer.created_first = 2
    /\ importer.idx = 2
    /\ importer.created = 0
    /\ Len(db) = 3

(***************************************************************************)
(* build_dim_constituencies.main: the candidates of every GeoJSON feature  *)
(* are counted by looking its name up among the names of                   *)
(* fct_candidates_21.csv.                                                  *)
(***************************************************************************)
\* the rest of s from i on matches "\s*(?:SC|ST)\s*\)?\s*$", case ignored
MarkerToEnd(s, i) ==
    LET k == i + RunLen(IsSpace, s, i)
        m == k + 2 + RunLen(IsSpace, s, k + 2)
        n == IF Ch(s, m) = ")" THEN m + 1 ELSE m
    IN  /\ Upper(Slice(s, k, k + 1)) \in {"SC", "ST"}
        /\ n + RunLen(IsSpace, s, n) = Len(s) + 1

\* re.sub(r"\s*\(\s*(?:SC|ST)\s*\)?\s*$", "", ac_name, flags=re.IGNORECASE).strip()
_clean_ac_name(ac_name) ==
    LET opens == {i \in 1..Len(ac_name) : Ch(ac_name, i) = "(" /\ MarkerToEnd(ac_name, i + 1)}
    IN  IF opens = {} THEN Strip(ac_name)
        ELSE Strip(Prefix(ac_name, (CHOOSE i \in opens : TRUE) - 1))

AliasPairs ==
    <<<<"ARUPPUKKOTTAI", "ARUPPUKOTTAI">>,
      <<"BODINAYAKANUR", "BODINAYAKKANUR">>,
      <<"CHEPAUKTHIRUVALLIKEN", "CHEPAUKTHIRUVALLIKENI">>,
      <<"COLACHEL", "COLACHAL">>,
      <<"DRRADHAKRISHNANNAGA", "DRRADHAKRISHNANNAGAR">>,
      <<"GANDHARVAKOTTAI", "GANDARVAKOTTAI">>,
      <<"KILVAITHINANKUPPAM", "KILVAITHINANKUPPAM">>,
      <<"MADAVARAM", "MADHAVARAM">>,
      <<"MADURAVOYAL", "MADHURAVOYAL">>,
      <<"METTUPPALAYAM", "METTUPALAYAM">>,
      <<"MUDHUKULATHUR", "MUDUKULATHUR">>,
      <<"PALACODU", "PALACODE">>,
      <<"PAPPIREDDIPPATTI", "PAPPIREDDIPATTI">>,
      <<"SHOLINGUR", "SHOLINGHUR">>,
      <<"SHOZHINGANALLUR", "SHOLINGANALLUR">>,
      <<"THALLI", "THALLY">>,
      <<"TIRUVOTTIYUR", "THIRUVOTTIYUR">>,
      <<"VRIDDHACHALAM", "VRIDHACHALAM">>,
      <<"VEDARANYAM", "VEDHARANYAM">>,
      <<"THIRUVARUR", "THIRUVAUR">>,
      <<"THOOTHUKKUDI", "THOOTHUKUDI">>>>

GEOJSON_TO_CSV_ALIASES ==
    [k \in {AliasPairs[i][1] : i \in DOMAIN AliasPairs} |->
        AliasPairs[CHOOSE i \in DOMAIN AliasPairs : AliasPairs[i][1] = k][2]]

\* AC_NAME of the features and 2021_constituency of the rows
AcNames == {"Ponneri (SC)", "Harur (ST", "Palacodu"}
CandidateNames == {"", " Ponneri", "PALACODE", "Harur (ST)"}

\* _count_candidates: counts[_normalize(constituency)] += 1 for every row
\* with a name
CountCandidates(names) ==
    [norm \in {_normalize(Strip(names[i])) : i \in {j \in DOMAIN names : Strip(names[j]) # ""}} |->
        Cardinality({j \in DOMAIN names :
                        Strip(names[j]) # "" /\ _normalize(Strip(names[j])) = norm})]

\* d.get(k, ""), a count; 0 stands for ""
CountOf(counts, k) == IF k \in DOMAIN counts THEN counts[k] ELSE 0

\* GEOJSON_TO_CSV_ALIASES.get(norm_key, "") if the name itself has no count
AliasFor(counts, norm_key) ==
    IF CountOf(counts, norm_key) = 0 /\ norm_key \in DOMAIN GEOJSON_TO_CSV_ALIASES
    THEN GEOJSON_TO_CSV_ALIASES[norm_key]
    ELSE ""

BuildFrame(features, names) ==
    [pc |-> "start", features |-> features, names |-> names, idx |-> 0,
     candidate_counts |-> EmptyDict, clean_name |-> "", norm_key |-> "", alias |-> "",
     total_candidates |-> 0]

BuildInit ==
    /\ build \in {BuildFrame(features, names) :
                    features \in UNION {[1..n -> AcNames] : n \in 0..MaxRows},
                    names \in UNION {[1..n -> CandidateNames] : n \in 0..MaxRows}}
    /\ NormIdle
    /\ MatchIdle
    /\ ViewOff
    /\ LoadIdle
    /\ download = NoFrame
    /\ sync = NoFrame
    /\ LangIdle
    /\ search = NoFrame
    /\ ImportIdle

notBuildVars ==
    <<normVars, matchVars, viewVars, loadVars, download, sync, langVars, search, importVars>>

\* "if not features: raise SystemExit", candidate_counts = _count_candidates(...)
StartBuild ==
    /\ build.pc = "start"
    /\ build' = IF build.features = <<>> THEN [build EXCEPT !.pc = "raised"]
                 ELSE [build EXCEPT !.pc = "features",
                                    !.candidate_counts = CountCandidates(build.names)]
    /\ UNCHANGED notBuildVars

\* the frame after the body of "for feature in features"
AfterFeature(f, clean_name, norm_key, alias) ==
    [f EXCEPT !.idx = f.idx + 1, !.clean_name = clean_name, !.norm_key = norm_key,
              !.alias = alias,
              !.total_candidates =
                  IF CountOf(f.candidate_counts, norm_key) # 0
                  THEN CountOf(f.candidate_counts, norm_key)
                  ELSE IF alias # "" THEN CountOf(f.candidate_counts, alias)
                  ELSE 0]

\* one pass of "for feature in features"
BuildFeature ==
    /\ build.pc = "features"
    /\ build.idx < Len(build.features)
    /\ build' = AfterFeature(build, _clean_ac_name(build.features[build.idx + 1]),
                              _normalize(_clean_ac_name(build.features[build.idx + 1])),
                              AliasFor(build.candidate_counts,
                                       _normalize(_clean_ac_name(build.features[build.idx + 1]))))
    /\ UNCHANGED notBuildVars

\* the rows are sorted and written
FinishBuild ==
    /\ build.pc = "features"
    /\ build.idx = Len(build.features)
    /\ build' = [build EXCEPT !.pc = "done"]
    /\ UNCHANGED notBuildVars

BuildNext ==
    \/ StartBuild
    \/ BuildFeature
    \/ FinishBuild

(***************************************************************************)
(* SpecReconcile: the places that reconcile names, each in a process of    *)
(* its own: a web process serving map_data and constituency_detail, the    *)
(* command import_dim_constituencies, the script build_dim_constituencies. *)
(***************************************************************************)
ReconcileInit ==
    \/ Init
    \/ ImportInit
    \/ BuildInit

ReconcileNext ==
    \/ Next
    \/ ImportNext
    \/ BuildNext

SpecReconcile == ReconcileInit /\ [][ReconcileNext]_vars

\* the fields of the rows the index pass has read
RowsRead == {smla_cache.rows[i] : i \in 1..idx}

\* the literals of explicit_district_aliases of a view
DistrictAliasLiterals(v) ==
    DOMAIN explicit_district_aliases(v)
        \cup UNION {DOMAIN explicit_district_aliases(v)[d]
                        \cup {explicit_district_aliases(v)[d][k] :
                                k \in DOMAIN explicit_district_aliases(v)[d]} :
                    d \in DOMAIN explicit_district_aliases(v)}

\* the literals of the hand-curated alias blocks of the views
CuratedKeys ==
    DOMAIN explicit_aliases \cup {explicit_aliases[k] : k \in DOMAIN explicit_aliases}
        \cup DOMAIN forced_global_alias
        \cup {forced_global_alias[k] : k \in DOMAIN forced_global_alias}
        \cup UNION {DistrictAliasLiterals(v) : v \in Views}

\* every curated literal is a key as _normalize_constituency_name writes it
CuratedKeysNormal == \A k \in CuratedKeys : _normalize_constituency_name(Some(k)) = k

\* every literal of GEOJSON_TO_CSV_ALIASES is a key as _normalize writes it
GeojsonAliasesNormal ==
    \A k \in DOMAIN GEOJSON_TO_CSV_ALIASES :
        _normalize(k) = k /\ _normalize(GEOJSON_TO_CSV_ALIASES[k]) = GEOJSON_TO_CSV_ALIASES[k]

\* the views: pool, alias table and the key resolved come from
\* _normalize_constituency_name
ViewsOneNormaliser ==
    /\ CuratedKeysNormal
    /\ constituency_seen = {KeyOf(r.con) : r \in RowsRead} \ {""}
    /\ \A d \in DOMAIN district_candidates :
        /\ d \in {KeyOf(r.dist) : r \in RowsRead}
        /\ district_candidates[d] \subseteq
                {KeyOf(r.con) : r \in RowsRead}
    /\ \A d \in DOMAIN alias_by_district :
        /\ d \in {KeyOf(r.dist) : r \in RowsRead} \cup CuratedKeys
                    \cup {""}
        /\ \A k \in DOMAIN alias_by_district[d] :
            /\ k \in {KeyOf(r.off) : r \in RowsRead} \cup CuratedKeys
            /\ alias_by_district[d][k] \in
                    {KeyOf(r.con) : r \in RowsRead} \cup CuratedKeys
    /\ Resolving =>
        /\ last.raw_key = KeyOf(last.name)
        /\ last.district_key = KeyOf(last.district)

\* the import command: the index of the records and the key looked up come
\* from _normalize
ImportOneNormaliser ==
    importer.pc = "rows" =>
        /\ DOMAIN importer.constituencies_by_norm =
                {_normalize(name) : name \in NamesOf(importer.indexed)}
        /\ (importer.idx > 0
                /\ Strip(importer.file.rows[importer.idx].constituency_name) # "") =>
            importer.norm =
                _normalize(Strip(importer.file.rows[importer.idx].constituency_name))

\* the build script: the counts, the alias literals and the key looked up
\* come from _normalize
BuildOneNormaliser ==
    build.pc \in {"features", "done"} =>
        /\ GeojsonAliasesNormal
        /\ DOMAIN build.candidate_counts =
                {_normalize(Strip(build.names[i])) :
                    i \in {j \in DOMAIN build.names : Strip(build.names[j]) # ""}}
        /\ build.idx > 0 =>
            /\ build.norm_key = _normalize(build.clean_name)
            /\ build.alias # "" => build.alias = GEOJSON_TO_CSV_ALIASES[build.norm_key]

\* C22: one normalisation variant per reconciliation session.  In map_data
\* and constituency_detail the keys of the pool, the keys and targets of the
\* alias table and the key resolved are what _normalize_constituency_name
\* makes of the rows and of the record, or curated literals it leaves as
\* they are; in import_dim_constituencies.handle and in
\* build_dim_constituencies.main they are what _normalize makes of the
\* names, or alias literals it leaves as they are.
C22_OneNormaliser ==
    /\ pc \in {"rows", "resolve", "respond"} => ViewsOneNormaliser
    /\ ImportOneNormaliser
    /\ BuildOneNormaliser

\* C22 witness: map_data resolved a feature against a pool that holds a key
\* on which the two normalisers differ.
C22_Witness ==
    /\ Resolving
    /\ view = "map_data"
    /\ "VANDAVASI SC" \in constituency_seen
    /\ _normalize("VANDAVASI SC") # "VANDAVASI SC"
    /\ last.raw_key # ""

(***************************************************************************)
(* SpecSearch: one map_search request.  A score is the exact fraction      *)
(* <<numerator, denominator>>.                                             *)
(***************************************************************************)
\* str.lower(), one character
ToLower == [c \in CharsOf(UpperLetters) |-> Ch(LowerLetters, IndexIn(UpperLetters, c))]
LowerCh(c) == IF c \in DOMAIN ToLower THEN ToLower[c] ELSE c

RECURSIVE Lower(_)
Lower(s) == IF s = "" THEN "" ELSE LowerCh(Ch(s, 1)) \o Lower(Suffix(s, 2))

\* s.startswith(prefix)
StartsWith(s, prefix) == Prefix(s, Len(prefix)) = prefix

\* sub in s
Contains(s, sub) ==
    \E i \in 1..(Len(s) - Len(sub) + 1) : Slice(s, i, i + Len(sub) - 1) = sub \/ sub = ""

\* set(s.split())
Words(s) ==
    {Slice(s, i, j) : i \in 1..Len(s), j \in 1..Len(s)} \cap
    {Slice(s, i, j) : <<i, j>> \in
        {x \in (1..Len(s)) \X (1..Len(s)) :
            /\ x[1] <= x[2]
            /\ \A k \in x[1]..x[2] : ~IsSpace(Ch(s, k))
            /\ x[1] = 1 \/ IsSpace(Ch(s, x[1] - 1))
            /\ x[2] = Len(s) \/ IsSpace(Ch(s, x[2] + 1))}}

\* max() of two scores: the first unless the second is greater
RatioMax(r, q) == IF RatioLess(r, q) THEN q ELSE r

\* "ratio if ratio >= threshold else 0.0", threshold = 0.6
AboveThreshold(ratio) == IF RatioAtLeast(ratio, 60) THEN ratio ELSE <<0, 1>>

\* _fuzzy_match_score after "query.lower().strip()" and "target.lower().strip()"
FuzzyOf(query, target) ==
    IF query = target THEN <<1, 1>>
    ELSE IF StartsWith(target, query) THEN <<95, 100>>
    ELSE IF Contains(target, query) THEN <<85, 100>>
    ELSE IF StartsWith(query, target) THEN <<9, 10>>
    ELSE IF Contains(query, target) THEN <<8, 10>>
    ELSE IF Words(query) \cap Words(target) # {}
    THEN AboveThreshold(RatioMax(Ratio(query, target), <<7, 10>>))
    ELSE AboveThreshold(Ratio(query, target))

_fuzzy_match_score(query, target) ==
    IF query = "" \/ target = "" THEN <<0, 1>>
    ELSE FuzzyOf(Strip(Lower(query)), Strip(Lower(target)))

\* best_district_score + 0.1 in binary floating point: the sum is the
\* double nearest to the exact sum, except that 0.7 + 0.1 is
\* 0.7999999999999999, which is below 0.8
Boosted(score) ==
    IF score[1] * 10 = 7 * score[2] THEN <<79999, 100000>>
    ELSE <<10 * score[1] + score[2], 10 * score[2]>>

\* a Constituency record with a boundary
Record(id, name, district) ==
    [id |-> id, name |-> name, name_ta |-> "", district |-> district, district_ta |-> ""]

\* the records the queryset yields, in the ordering of the model (by name)
SearchRecords ==
    <<Record(11, "Attur", "Salem"), Record(3, "Edappadi", "Salem"),
      Record(7, "Gangavalli", "Salem "), Record(1, "Mettur", "Salem"),
      Record(15, "Omalur", "Salem"), Record(2, "Saidapet", "Chennai"),
      Record(9, "Salem North", "Salem"), Record(8, "Salem South", "Salem"),
      Record(10, "Salem West", "Salem"), Record(4, "Sankari", "Salem"),
      Record(5, "Sattur", "Virudhunagar"), Record(6, "Veerapandi", ""),
      Record(12, "Yercaud", "Salem"), Record(13, "salem east", "salem"),
      Record(14, "sankarankovil", "Tenkasi"), Record(16, "sattur town", "Virudhunagar"),
      Record(17, "yercaud lake", "Salem")>>

\* request.GET.get("q", "")
Queries == {"", "s", " s ", "sa", "salem", "Salem N", "xyz", "attur salem"}

\* the limit of the result list
MaxResults == 15

Item(id, name, district, match_type, score, is_district_result) ==
    [id |-> id, name |-> name, district |-> district, match_type |-> match_type,
     score |-> score, is_district_result |-> is_district_result]

\* the match type of a constituency result
MatchType(name_score, name_ta_score, district_score, district_ta_score) ==
    IF ~RatioLess(name_score, district_score) /\ ~RatioLess(name_score, district_ta_score)
    THEN "name"
    ELSE IF ~RatioLess(name_ta_score, district_score)
            /\ ~RatioLess(name_ta_score, district_ta_score)
    THEN "name"
    ELSE "district"

\* what the loop over the constituencies appends for one record
ScoredRecord(c, name_score, name_ta_score, district_score, district_ta_score) ==
    IF RatioLess(<<0, 1>>,
                 RatioMax(RatioMax(name_score, name_ta_score),
                          RatioMax(district_score, district_ta_score)))
    THEN <<Item(c.id, c.name, Strip(c.district),
                MatchType(name_score, name_ta_score, district_score, district_ta_score),
                RatioMax(RatioMax(name_score, name_ta_score),
                         RatioMax(district_score, district_ta_score)),
                FALSE)>>
    ELSE <<>>

ScoredConstituency(query_lower, query_normalized, c) ==
    ScoredRecord(c,
                 RatioMax(_fuzzy_match_score(query_lower, Lower(c.name)),
                          _fuzzy_match_score(query_normalized,
                                             _normalize_constituency_name(Some(c.name)))),
                 _fuzzy_match_score(query_lower, Lower(c.name_ta)),
                 _fuzzy_match_score(query_lower, Lower(Strip(c.district))),
                 _fuzzy_match_score(query_lower, Lower(c.district_ta)))

RECURSIVE ScoredConstituencies(_, _, _)
ScoredConstituencies(query_lower, query_normalized, records) ==
    IF records = <<>> THEN <<>>
    ELSE ScoredConstituency(query_lower, query_normalized, Head(records))
            \o ScoredConstituencies(query_lower, query_normalized, Tail(records))

\* the keys of district_constituencies, in the order of insertion
RECURSIVE DistrictsOf(_, _)
DistrictsOf(records, districts) ==
    IF records = <<>> THEN districts
    ELSE DistrictsOf(Tail(records),
                     IF Strip(Head(records).district) = ""
                        \/ \E i \in DOMAIN districts : districts[i] = Strip(Head(records).district)
                     THEN districts
                     ELSE Append(districts, Strip(Head(records).district)))

\* district_ta of the first constituency of the district
FirstDistrictTa(records, district) ==
    records[CHOOSE i \in DOMAIN records :
                /\ Strip(records[i].district) = district
                /\ \A j \in 1..(i - 1) : Strip(records[j].district) # district].district_ta

\* what the loop over the districts appends for one district
ScoredDistrict(district, best_district_score) ==
    IF RatioAtLeast(best_district_score, 70)
    THEN <<Item(0, district \o " District", district, "district_group",
                Boosted(best_district_score), TRUE)>>
    ELSE <<>>

RECURSIVE ScoredDistricts(_, _, _)
ScoredDistricts(query_lower, records, districts) ==
    IF districts = <<>> THEN <<>>
    ELSE ScoredDistrict(Head(districts),
                        RatioMax(_fuzzy_match_score(query_lower, Lower(Head(districts))),
                                 _fuzzy_match_score(query_lower,
                                     Lower(FirstDistrictTa(records, Head(districts))))))
            \o ScoredDistricts(query_lower, records, Tail(districts))

\* type_priority.get(item["match_type"], 3)
TypePriority(match_type) ==
    CASE match_type = "name" -> 0
      [] match_type = "district_group" -> 1
      [] match_type = "district" -> 2
      [] OTHER -> 3

\* sort_key(a) < sort_key(b)
SortKeyLess(a, b) ==
    \/ RatioLess(b.score, a.score)
    \/ /\ ~RatioLess(a.score, b.score)
       /\ \/ TypePriority(a.match_type) < TypePriority(b.match_type)
          \/ /\ TypePriority(a.match_type) = TypePriority(b.match_type)
             /\ StrLess(Lower(a.name), Lower(b.name))

\* list.sort(key=sort_key): stable
RECURSIVE Inserted(_, _)
Inserted(sorted, item) ==
    IF sorted = <<>> THEN <<item>>
    ELSE IF SortKeyLess(item, Head(sorted)) THEN <<item>> \o sorted
    ELSE <<Head(sorted)>> \o Inserted(Tail(sorted), item)

RECURSIVE Sorted(_, _)
Sorted(items, sorted) ==
    IF items = <<>> THEN sorted ELSE Sorted(Tail(items), Inserted(sorted, Head(items)))

\* "Remove duplicates (keep highest scored version)"
RECURSIVE Unique(_, _, _)
Unique(results, seen_ids, seen_districts) ==
    IF results = <<>> THEN <<>>
    ELSE IF Head(results).is_district_result
    THEN IF Head(results).district \in seen_districts
         THEN Unique(Tail(results), seen_ids, seen_districts)
         ELSE <<Head(results)>>
                \o Unique(Tail(results), seen_ids, seen_districts \cup {Head(results).district})
    ELSE IF Head(results).id \in seen_ids
         THEN Unique(Tail(results), seen_ids, seen_districts)
         ELSE <<Head(results)>>
                \o Unique(Tail(results), seen_ids \cup {Head(results).id}, seen_districts)

\* a variant that returns every result
Unlimited(results) == results

\* unique_results[:15]
Limited(results) ==
    IF Len(results) > MaxResults THEN SubSeq(results, 1, MaxResults) ELSE results

\* scored_results before the sort
ScoredResults(query, records) ==
    ScoredConstituencies(Lower(query), _normalize_constituency_name(Some(query)), records)
        \o ScoredDistricts(Lower(query), records, DistrictsOf(records, <<>>))

SearchInit ==
    /\ search \in {[pc |-> "start", q |-> q, n |-> n, scored |-> 0, results |-> <<>>] :
                        q \in Queries, n \in 0..MaxRecords}
    /\ NormIdle
    /\ MatchIdle
    /\ ViewIdle
    /\ LoadIdle
    /\ download = NoFrame
    /\ sync = NoFrame
    /\ LangIdle
    /\ ImportIdle
    /\ build = NoFrame

notSearchVars ==
    <<normVars, matchVars, viewVars, loadVars, download, sync, langVars, importVars, build>>

\* the frame when map_search returns, for the stripped query and the
\* scored results
Responded(f, query, scored) ==
    IF Len(query) < 2 THEN [f EXCEPT !.pc = "done"]
    ELSE [f EXCEPT !.pc = "done", !.scored = Len(scored),
                   !.results = Limited(Unique(Sorted(scored, <<>>), {}, {}))]

\* map_search(request)
MapSearch ==
    /\ search.pc = "start"
    /\ search' = Responded(search, Strip(search.q),
                            IF Len(Strip(search.q)) < 2 THEN <<>>
                            ELSE ScoredResults(Strip(search.q),
                                               SubSeq(SearchRecords, 1, search.n)))
    /\ UNCHANGED notSearchVars

SearchNext == MapSearch

SpecSearch == SearchInit /\ [][SearchNext]_vars

\* C29: map_search returns an empty list for a query shorter than 2
\* characters, and otherwise at most 15 results, in which no constituency
\* id appears twice and no district appears twice as a district-group
\* result, ordered by descending score, then by match type (name,
\* district_group, district), then by name, compared in lower case.
C29_SearchResults ==
    search.pc = "done" =>
        /\ Len(search.q) < 2 => search.results = <<>>
        /\ Len(search.results) <= MaxResults
        /\ \A i, j \in DOMAIN search.results :
            /\ (i # j /\ ~search.results[i].is_district_result
                       /\ ~search.results[j].is_district_result) =>
                search.results[i].id # search.results[j].id
            /\ (i # j /\ search.results[i].is_district_result
                       /\ search.results[j].is_district_result) =>
                search.results[i].district # search.results[j].district
            /\ i < j =>
                /\ ~RatioLess(search.results[i].score, search.results[j].score)
                /\ ~RatioLess(search.results[j].score, search.results[i].score) =>
                    /\ TypePriority(search.results[i].match_type)
                            <= TypePriority(search.results[j].match_type)
                    /\ search.results[i].match_type = search.results[j].match_type =>
                        ~StrLess(Lower(search.results[j].name), Lower(search.results[i].name))

\* C29 witness: more than 15 results were scored, among them two district
\* groups, and 15 were returned: results of both kinds, and results with
\* the same score and different match types.
C29_Witness ==
    /\ search.pc = "done"
    /\ search.scored > MaxResults
    /\ Len(search.results) = MaxResults
    /\ \E i, j \in DOMAIN search.results :
        /\ search.results[i].is_district_result
        /\ ~search.results[j].is_district_result
    /\ \E i, j \in DOMAIN search.results :
        /\ search.results[i].score = search.results[j].score
        /\ search.results[i].match_type # search.results[j].match_type

====
